---- MODULE Spec2Model ----
(***************************************************************************)
(* MilkFlow (milk-shop-app): the authentication and session-security core  *)
(* of js/security.js (MilkSecurity) and the parts of js/app.js (MilkApp)   *)
(* that drive it: login, logout, the inactivity monitor, the confirm       *)
(* dialog and the owner-only operations behind it.                         *)
(*                                                                         *)
(* Time is Date.now() in milliseconds.  A handler runs to completion at    *)
(* one instant (single-threaded event loop); time advances only between    *)
(* handlers.  Timers (setInterval, setTimeout) fire at or after their due  *)
(* time, never before.  An async function is split at its await: the part  *)
(* before runs in the calling handler, the continuation is a later step.   *)
(***************************************************************************)
EXTENDS Integers, Sequences, FiniteSets, TLC

\* ------------------------------------------------------------------------
\* Program constants
\* ------------------------------------------------------------------------
SESSION_TIMEOUT_MS == 30 * 60 * 1000
MAX_LOGIN_ATTEMPTS == 5
LOCKOUT_DURATION_MS == 5 * 60 * 1000
ATTEMPT_WINDOW_MS == 15 * 60 * 1000
POLL_INTERVAL_MS == 60000
THROTTLE_LIMIT_MS == 5000
AUDIT_MAX == 200
ACTIVITIES_MAX == 50
MS_PER_MINUTE == 60000
MS_PER_DAY == 86400000

\* ------------------------------------------------------------------------
\* Bounds of the model
\* ------------------------------------------------------------------------
\* login continuations suspended in the verifyPassword await at one time
MaxInflight == 2
\* audited user operations (logins, logouts) in one behaviour of the session
\* scenarios, and their clock horizon in steps of 10 minutes
MaxSessionOps == 3
SessionHorizon == 5
\* the same for the rate-limiter scenarios, in steps of 2.5 minutes
MaxRateOps == 6
RateHorizon == 3

\* the absent value (JavaScript null / undefined)
None == [null |-> TRUE]

\* outputs of crypto.getRandomValues, hex-encoded: the session tokens drawn by
\* generateSessionToken, and the (owner, staff) salts drawn by generateSalt
\* when initDefaults creates the default users
Tokens == {"t1", "t2"}
InstallSalts == {<<"a1", "b2">>}
\* output of generateSalt in later calls (hashPassword without a salt)
Salts == {"c3"}

Min(S) == CHOOSE m \in S : \A n \in S : m <= n

\* a plausible slip: Math.floor where the code has Math.ceil
CeilDiv_floor(a, b) == a \div b

\* Math.ceil(a / b) for b > 0
CeilDiv(a, b) == IF a >= 0 THEN (a + b - 1) \div b ELSE -((-a) \div b)

\* new Date().toISOString(): the instant, as a string of the date and time
toISOString(t) == <<"ISO", t \div MS_PER_DAY, t % MS_PER_DAY>>

\* todayStr(): the date part of the ISO string
todayStr(t) == t \div MS_PER_DAY

\* crypto.subtle.digest('SHA-256', .), hex-encoded: collision-free on the
\* strings of the model
SHA256(str) == <<"sha256", str>>

\* ------------------------------------------------------------------------
\* Password hashing
\* ------------------------------------------------------------------------
\* a plausible slip: the digest is taken over the salt alone
hashPassword_saltonly(password, salt, generated) ==
    LET used == IF salt = "" THEN generated ELSE salt
    IN  [hash |-> SHA256(used), salt |-> used]

\* hashPassword(password, salt): a missing or empty salt ("") is replaced by a
\* fresh one, generated, the output of generateSalt in this call
hashPassword(password, salt, generated) ==
    LET used == IF salt = "" THEN generated ELSE salt
    IN  [hash |-> SHA256(used \o password), salt |-> used]

\* a plausible slip: the promise is tested, not its awaited value
verifyPassword_truthy(password, storedHash, salt, generated) == TRUE

verifyPassword(password, storedHash, salt, generated) ==
    hashPassword(password, salt, generated).hash = storedHash

\* ------------------------------------------------------------------------
\* Login rate limiting
\* ------------------------------------------------------------------------
\* a plausible slip: the log is pruned to the lockout window
recordLoginAttempt_short(att, username, success, t) ==
    LET pushed == Append(att, [username |-> username, timestamp |-> t, success |-> success])
        cutoff == t - LOCKOUT_DURATION_MS
    IN  SelectSeq(pushed, LAMBDA a : a.timestamp > cutoff)

\* a plausible slip: a successful attempt clears the failures before it
recordLoginAttempt_reset(att, username, success, t) ==
    LET pushed == Append(IF success THEN SelectSeq(att, LAMBDA a : a.success) ELSE att,
                         [username |-> username, timestamp |-> t, success |-> success])
        cutoff == t - ATTEMPT_WINDOW_MS
    IN  SelectSeq(pushed, LAMBDA a : a.timestamp > cutoff)

recordLoginAttempt(att, username, success, t) ==
    LET pushed == Append(att, [username |-> username, timestamp |-> t, success |-> success])
        cutoff == t - ATTEMPT_WINDOW_MS
    IN  SelectSeq(pushed, LAMBDA a : a.timestamp > cutoff)

\* a plausible slip: the threshold compared with > where the code has >=
isLoginLocked_gt(att, t) ==
    LET cutoff == t - LOCKOUT_DURATION_MS
        recentFailures == SelectSeq(att, LAMBDA a : ~a.success /\ a.timestamp > cutoff)
    IN  IF Len(recentFailures) > MAX_LOGIN_ATTEMPTS
        THEN [locked |-> TRUE, remainingMinutes |-> 1, message |-> <<>>, remainingAttempts |-> 0]
        ELSE [locked |-> FALSE, remainingMinutes |-> 0, message |-> <<>>,
              remainingAttempts |-> MAX_LOGIN_ATTEMPTS - Len(recentFailures)]

\* a plausible slip: the window's cutoff compared with >= where the code has >
isLoginLocked_inclusive(att, t) ==
    LET cutoff == t - LOCKOUT_DURATION_MS
        recentFailures == SelectSeq(att, LAMBDA a : ~a.success /\ a.timestamp >= cutoff)
    IN  IF Len(recentFailures) >= MAX_LOGIN_ATTEMPTS
        THEN LET oldestInWindow == Min({recentFailures[i].timestamp : i \in DOMAIN recentFailures})
                 unlockTime == oldestInWindow + LOCKOUT_DURATION_MS
                 remainingMs == unlockTime - t
                 remainingMin == CeilDiv(remainingMs, MS_PER_MINUTE)
             IN  [locked |-> TRUE, remainingMinutes |-> remainingMin,
                  message |-> <<"Too many failed attempts. Try again in ", remainingMin,
                                IF remainingMin > 1 THEN " minutes." ELSE " minute.">>,
                  remainingAttempts |-> 0]
        ELSE [locked |-> FALSE, remainingMinutes |-> 0, message |-> <<>>,
              remainingAttempts |-> MAX_LOGIN_ATTEMPTS - Len(recentFailures)]

\* a plausible slip: only the failures of the username that failed last count
isLoginLocked_peruser(att, t) ==
    LET cutoff == t - LOCKOUT_DURATION_MS
        failures == SelectSeq(att, LAMBDA a : ~a.success /\ a.timestamp > cutoff)
        last == IF failures = <<>> THEN "" ELSE failures[Len(failures)].username
        recentFailures == SelectSeq(failures, LAMBDA a : a.username = last)
    IN  IF Len(recentFailures) >= MAX_LOGIN_ATTEMPTS
        THEN LET oldestInWindow == Min({recentFailures[i].timestamp : i \in DOMAIN recentFailures})
                 unlockTime == oldestInWindow + LOCKOUT_DURATION_MS
                 remainingMs == unlockTime - t
                 remainingMin == CeilDiv(remainingMs, MS_PER_MINUTE)
             IN  [locked |-> TRUE, remainingMinutes |-> remainingMin,
                  message |-> <<"Too many failed attempts. Try again in ", remainingMin,
                                IF remainingMin > 1 THEN " minutes." ELSE " minute.">>,
                  remainingAttempts |-> 0]
        ELSE [locked |-> FALSE, remainingMinutes |-> 0, message |-> <<>>,
              remainingAttempts |-> MAX_LOGIN_ATTEMPTS - Len(recentFailures)]

isLoginLocked(att, t) ==
    LET cutoff == t - LOCKOUT_DURATION_MS
        recentFailures == SelectSeq(att, LAMBDA a : ~a.success /\ a.timestamp > cutoff)
    IN  IF Len(recentFailures) >= MAX_LOGIN_ATTEMPTS
        THEN LET oldestInWindow == Min({recentFailures[i].timestamp : i \in DOMAIN recentFailures})
                 unlockTime == oldestInWindow + LOCKOUT_DURATION_MS
                 remainingMs == unlockTime - t
                 remainingMin == CeilDiv(remainingMs, MS_PER_MINUTE)
             IN  [locked |-> TRUE, remainingMinutes |-> remainingMin,
                  message |-> <<"Too many failed attempts. Try again in ", remainingMin,
                                IF remainingMin > 1 THEN " minutes." ELSE " minute.">>,
                  remainingAttempts |-> 0]
        ELSE [locked |-> FALSE, remainingMinutes |-> 0, message |-> <<>>,
              remainingAttempts |-> MAX_LOGIN_ATTEMPTS - Len(recentFailures)]

\* ------------------------------------------------------------------------
\* Audit log.  A missing username (undefined, or the empty string) is "".
\* ------------------------------------------------------------------------
\* a plausible slip: the log is never truncated
auditLog_nocap(logs, action, details, username, t) ==
    <<[action |-> action, details |-> details,
       username |-> IF username = "" THEN "system" ELSE username,
       timestamp |-> toISOString(t), userAgent |-> "ua"]>> \o logs

auditLog(logs, action, details, username, t) ==
    LET entry == [action |-> action, details |-> details,
                  username |-> IF username = "" THEN "system" ELSE username,
                  timestamp |-> toISOString(t), userAgent |-> "ua"]
        unshifted == <<entry>> \o logs
    IN  IF Len(unshifted) > AUDIT_MAX THEN SubSeq(unshifted, 1, AUDIT_MAX) ELSE unshifted

\* getAuditLogs(): the stored log, newest first
getAuditLogs(logs) == logs

\* ------------------------------------------------------------------------
\* State
\* ------------------------------------------------------------------------
VARIABLES
    now,            \* Date.now()
    users,          \* localStorage mf_users: the credential list
    session,        \* localStorage mf_secure_session, or None
    attempts,       \* localStorage mf_login_attempts
    audit,          \* localStorage mf_audit_log, newest first
    closings,       \* localStorage mf_closings
    activities,     \* localStorage mf_activities, newest first
    monitor,        \* sessionCheckInterval, the activity listeners and their throttle
    onSessionExpiredCallback,   \* TRUE once init() has registered the handler
    currentUser,    \* MilkApp's logged-in user, or None
    screen,         \* "login" (loginScreen shown) or "app" (appContainer shown)
    confirmCallback,\* the pending confirm dialog's callback, or "none"
    inflight,       \* login() calls suspended in await verifyPassword
    saving,         \* saveUser() calls suspended in await hashPassword
    confirmArgs,    \* the variables the pending confirm callback closes over, or None
    sales,          \* localStorage mf_sales
    stockEntries,   \* localStorage mf_stock_entries
    currentStock,   \* localStorage mf_current_stock
    changing,       \* changePassword() calls suspended in await hashPassword
    ret             \* the last handler that ran and what it returned

vars == <<now, users, session, attempts, audit, closings, activities, monitor,
          onSessionExpiredCallback, currentUser, screen, confirmCallback, inflight,
          saving, confirmArgs, sales, stockEntries, currentStock, changing, ret>>

storageVars == <<users, session, attempts, audit, closings, activities, sales, stockEntries,
                 currentStock>>

Ret(op) == [op |-> op, arg |-> <<>>, result |-> "none", locked |-> FALSE,
            got |-> None, cb |-> FALSE, created |-> FALSE, rng |-> "", fault |-> "none"]

Remove(seq, i) == SubSeq(seq, 1, i - 1) \o SubSeq(seq, i + 1, Len(seq))

\* ------------------------------------------------------------------------
\* Session management and the inactivity monitor.  sec is the module state
\* [store: the persisted session, monitor: the timers and listeners].
\* ------------------------------------------------------------------------
\* no interval, no listeners (sessionCheckInterval = null, no cleanup function)
NoMonitor ==
    [interval |-> FALSE, pollBase |-> 0, listening |-> FALSE,
     inThrottle |-> FALSE, throttleAt |-> 0]

\* a plausible slip: the listeners are removed, the interval is not cleared
stopInactivityMonitor_leak(m) ==
    [m EXCEPT !.listening = FALSE, !.inThrottle = FALSE, !.throttleAt = 0]

stopInactivityMonitor(m) ==
    [m EXCEPT !.interval = FALSE, !.pollBase = 0, !.listening = FALSE,
              !.inThrottle = FALSE, !.throttleAt = 0]

startInactivityMonitor(m, t) ==
    [stopInactivityMonitor(m) EXCEPT !.interval = TRUE, !.pollBase = t, !.listening = TRUE,
                                     !.inThrottle = FALSE, !.throttleAt = 0]

\* a plausible slip: the session is removed, the monitor keeps running
destroySession_nostop(sec) ==
    [store |-> None, monitor |-> sec.monitor]

destroySession(sec) ==
    [store |-> None, monitor |-> stopInactivityMonitor(sec.monitor)]

\* a plausible slip: an existing session's token and creation time are kept
createSession_keep(sec, user, t, token) ==
    LET s == [username |-> user.username, role |-> user.role, name |-> user.name,
              createdAt |-> IF sec.store # None THEN sec.store.createdAt ELSE t,
              lastActivity |-> t,
              token |-> IF sec.store # None THEN sec.store.token ELSE token,
              expiresAt |-> t + SESSION_TIMEOUT_MS]
    IN  [value |-> s,
         sec |-> [store |-> s, monitor |-> startInactivityMonitor(sec.monitor, t)]]

\* createSession(user) with its three reads of Date.now() told apart: reads
\* is <<createdAt's, lastActivity's, expiresAt's>>, in the order the object
\* literal evaluates them (generateSessionToken() runs before the third)
createSessionAt(sec, user, reads, token) ==
    LET s == [username |-> user.username, role |-> user.role, name |-> user.name,
              createdAt |-> reads[1], lastActivity |-> reads[2], token |-> token,
              expiresAt |-> reads[3] + SESSION_TIMEOUT_MS]
    IN  [value |-> s,
         sec |-> [store |-> s, monitor |-> startInactivityMonitor(sec.monitor, reads[3])]]

\* createSession(user) inside a handler that runs at the instant t
createSession(sec, user, t, token) == createSessionAt(sec, user, <<t, t, t>>, token)

\* a plausible slip: expiry compared with >= where the code has >
getSession_ge(sec, t) ==
    IF sec.store = None THEN [value |-> None, sec |-> sec]
    ELSE IF t >= sec.store.expiresAt THEN [value |-> None, sec |-> destroySession(sec)]
    ELSE [value |-> sec.store, sec |-> sec]

getSession(sec, t) ==
    IF sec.store = None THEN [value |-> None, sec |-> sec]
    ELSE IF t > sec.store.expiresAt THEN [value |-> None, sec |-> destroySession(sec)]
    ELSE [value |-> sec.store, sec |-> sec]

\* a plausible slip: the stored session is read without getSession()'s expiry
\* test
refreshSession_revive(sec, t) ==
    IF sec.store # None
    THEN LET s == [sec.store EXCEPT !.lastActivity = t, !.expiresAt = t + SESSION_TIMEOUT_MS]
         IN  [value |-> s, sec |-> [sec EXCEPT !.store = s]]
    ELSE [value |-> None, sec |-> sec]

\* a plausible slip: the expiry is computed from the stored lastActivity
refreshSession_stale(sec, t) ==
    LET g == getSession(sec, t)
    IN  IF g.value # None
        THEN LET s == [g.value EXCEPT !.lastActivity = t,
                                      !.expiresAt = g.value.lastActivity + SESSION_TIMEOUT_MS]
             IN  [value |-> s, sec |-> [g.sec EXCEPT !.store = s]]
        ELSE g

\* refreshSession() with its three reads of Date.now() told apart: reads is
\* <<getSession's, lastActivity's, expiresAt's>>
refreshSessionAt(sec, reads) ==
    LET g == getSession(sec, reads[1])
    IN  IF g.value # None
        THEN LET s == [g.value EXCEPT !.lastActivity = reads[2],
                                      !.expiresAt = reads[3] + SESSION_TIMEOUT_MS]
             IN  [value |-> s, sec |-> [g.sec EXCEPT !.store = s]]
        ELSE g

\* refreshSession() inside a handler that runs at the instant t
refreshSession(sec, t) == refreshSessionAt(sec, <<t, t, t>>)

Sec == [store |-> session, monitor |-> monitor]

\* ------------------------------------------------------------------------
\* Initial state: a fresh installation after init() has run (initDefaults
\* created the two default users; checkSession found no session).
\* ------------------------------------------------------------------------
DefaultUsers(ownerSalt, staffSalt) ==
    LET ownerHash == hashPassword("Owner@123", "", ownerSalt)
        staffHash == hashPassword("Staff@123", "", staffSalt)
    IN  << [username |-> "owner", passwordHash |-> ownerHash.hash, salt |-> ownerHash.salt,
            role |-> "owner", name |-> "Shop Owner"],
           [username |-> "staff", passwordHash |-> staffHash.hash, salt |-> staffHash.salt,
            role |-> "staff", name |-> "Staff Member"] >>

Init ==
    /\ now = 0
    /\ \E salts \in InstallSalts : users = DefaultUsers(salts[1], salts[2])
    /\ session = None
    /\ attempts = <<>>
    /\ audit = <<>>
    /\ closings = <<>>
    /\ activities = <<>>
    /\ monitor = NoMonitor
    /\ onSessionExpiredCallback = TRUE
    /\ currentUser = None
    /\ screen = "login"
    /\ confirmCallback = "none"
    /\ inflight = <<>>
    /\ saving = <<>>
    /\ confirmArgs = None
    /\ ret = Ret("init")
    /\ sales = <<>>
    /\ stockEntries = <<>>
    /\ currentStock = 0
    /\ changing = <<>>

\* ------------------------------------------------------------------------
\* logout(): audit, forget the user, destroy the session, show the login
\* screen.  st is [audit, sec]; the result is the same record afterwards.
\* ------------------------------------------------------------------------
\* a plausible slip: logout() without its audit entry
logout_silent(st, user, t) ==
    [audit |-> st.audit, sec |-> destroySession(st.sec)]

logout(st, user, t) ==
    [audit |-> auditLog(st.audit, "LOGOUT", "User logged out",
                        IF user = None THEN "" ELSE user.username, t),
     sec |-> destroySession(st.sec)]

\* ------------------------------------------------------------------------
\* login(username, password, role), up to its await
\* ------------------------------------------------------------------------
LoginFailed(username, role) ==
    /\ attempts' = recordLoginAttempt(attempts, username, FALSE, now)
    /\ audit' = auditLog(audit, "LOGIN_FAILED", "Failed login attempt for role: " \o role,
                         username, now)

\* a plausible slip: login() without the rate-limit check
LoginCall_nolock(username, password, role) ==
    /\ screen = "login"
    /\ LET found == {i \in DOMAIN users : users[i].username = username /\ users[i].role = role}
           call == [Ret("login") EXCEPT !.arg = <<username, password, role>>]
       IN  IF found # {} /\ users[Min(found)].passwordHash # <<>>
           THEN /\ inflight' = Append(inflight, [username |-> username, password |-> password,
                                                 role |-> role, user |-> users[Min(found)]])
                /\ ret' = [call EXCEPT !.result = "pending"]
                /\ UNCHANGED <<attempts, audit>>
           ELSE /\ LoginFailed(username, role)
                /\ ret' = [call EXCEPT !.result = "false"]
                /\ UNCHANGED inflight
    /\ UNCHANGED <<now, users, session, closings, activities, monitor,
                   onSessionExpiredCallback, currentUser, screen, confirmCallback,
                   saving, confirmArgs>>
    /\ UNCHANGED <<sales, stockEntries, currentStock, changing>>

\* a plausible slip: login() returns early for a username it does not find
LoginCall_early(username, password, role) ==
    /\ screen = "login"
    /\ LET rateLimit == isLoginLocked(attempts, now)
           found == {i \in DOMAIN users : users[i].username = username /\ users[i].role = role}
           call == [Ret("login") EXCEPT !.arg = <<username, password, role>>]
       IN  IF rateLimit.locked
           THEN /\ ret' = [call EXCEPT !.result = "false", !.locked = TRUE]
                /\ UNCHANGED <<attempts, audit, inflight>>
           ELSE IF found = {}
           THEN /\ ret' = [call EXCEPT !.result = "false"]
                /\ UNCHANGED <<attempts, audit, inflight>>
           ELSE IF users[Min(found)].passwordHash # <<>>
           THEN /\ inflight' = Append(inflight, [username |-> username, password |-> password,
                                                 role |-> role, user |-> users[Min(found)]])
                /\ ret' = [call EXCEPT !.result = "pending"]
                /\ UNCHANGED <<attempts, audit>>
           ELSE /\ LoginFailed(username, role)
                /\ ret' = [call EXCEPT !.result = "false"]
                /\ UNCHANGED inflight
    /\ UNCHANGED <<now, users, session, closings, activities, monitor,
                   onSessionExpiredCallback, currentUser, screen, confirmCallback,
                   saving, confirmArgs>>
    /\ UNCHANGED <<sales, stockEntries, currentStock, changing>>

LoginCall(username, password, role) ==
    /\ screen = "login"
    /\ LET rateLimit == isLoginLocked(attempts, now)
           found == {i \in DOMAIN users : users[i].username = username /\ users[i].role = role}
           call == [Ret("login") EXCEPT !.arg = <<username, password, role>>]
       IN  IF rateLimit.locked
           THEN /\ ret' = [call EXCEPT !.result = "false", !.locked = TRUE]
                /\ UNCHANGED <<attempts, audit, inflight>>
           ELSE IF found # {} /\ users[Min(found)].passwordHash # <<>>
           THEN /\ inflight' = Append(inflight, [username |-> username, password |-> password,
                                                 role |-> role, user |-> users[Min(found)]])
                /\ ret' = [call EXCEPT !.result = "pending"]
                /\ UNCHANGED <<attempts, audit>>
           ELSE /\ LoginFailed(username, role)
                /\ ret' = [call EXCEPT !.result = "false"]
                /\ UNCHANGED inflight
    /\ UNCHANGED <<now, users, session, closings, activities, monitor,
                   onSessionExpiredCallback, currentUser, screen, confirmCallback,
                   saving, confirmArgs>>
    /\ UNCHANGED <<sales, stockEntries, currentStock, changing>>

\* login(), from the await on: verifyPassword has completed for inflight[i]
LoginResume(i) ==
    /\ i \in DOMAIN inflight
    /\ \E generated \in Salts :
       LET c == inflight[i]
           isValid == verifyPassword(c.password, c.user.passwordHash, c.user.salt, generated)
           done == [Ret("loginResume") EXCEPT !.arg = <<c.username, c.password, c.role>>]
       IN  /\ inflight' = Remove(inflight, i)
           /\ IF isValid
              THEN \E token \in Tokens :
                     LET user == [username |-> c.user.username, role |-> c.user.role,
                                  name |-> c.user.name]
                         cs == createSession(Sec, user, now, token)
                     IN  /\ currentUser' = user
                         /\ session' = cs.sec.store
                         /\ monitor' = cs.sec.monitor
                         /\ attempts' = recordLoginAttempt(attempts, c.username, TRUE, now)
                         /\ audit' = auditLog(audit, "LOGIN_SUCCESS",
                                              "User logged in as " \o c.role, c.username, now)
                         /\ screen' = "app"
                         /\ ret' = [done EXCEPT !.result = "true", !.created = TRUE,
                                                !.rng = token]
              ELSE /\ LoginFailed(c.username, c.role)
                   /\ ret' = [done EXCEPT !.result = "false"]
                   /\ UNCHANGED <<session, monitor, currentUser, screen>>
    /\ UNCHANGED <<now, users, closings, activities, onSessionExpiredCallback, confirmCallback,
                   saving, confirmArgs>>
    /\ UNCHANGED <<sales, stockEntries, currentStock, changing>>

\* ------------------------------------------------------------------------
\* The clock
\* ------------------------------------------------------------------------
Tick(d, horizon) ==
    /\ now + d <= horizon
    /\ now' = now + d
    /\ ret' = Ret("tick")
    /\ UNCHANGED <<users, session, attempts, audit, closings, activities, monitor,
                   onSessionExpiredCallback, currentUser, screen, confirmCallback, inflight,
                   saving, confirmArgs>>
    /\ UNCHANGED <<sales, stockEntries, currentStock, changing>>

\* ------------------------------------------------------------------------
\* The inactivity monitor's callbacks
\* ------------------------------------------------------------------------
\* the setInterval callback of startInactivityMonitor; when it finds no valid
\* session it calls the handler init() registered: audit, then logout()
Poll ==
    /\ monitor.interval
    /\ now >= monitor.pollBase + POLL_INTERVAL_MS
    /\ LET g == getSession(Sec, now)
           username == IF currentUser = None THEN "" ELSE currentUser.username
       IN  IF g.value = None /\ onSessionExpiredCallback
           THEN LET expired == auditLog(audit, "SESSION_EXPIRED",
                                        "Session expired due to inactivity", username, now)
                    out == logout([audit |-> expired, sec |-> g.sec], currentUser, now)
                IN  /\ audit' = out.audit
                    /\ session' = out.sec.store
                    /\ monitor' = out.sec.monitor
                    /\ currentUser' = None
                    /\ screen' = "login"
                    /\ ret' = [Ret("poll") EXCEPT !.cb = TRUE]
           ELSE /\ session' = g.sec.store
                /\ monitor' = IF g.sec.monitor.interval
                              THEN [g.sec.monitor EXCEPT !.pollBase = now]
                              ELSE g.sec.monitor
                /\ ret' = [Ret("poll") EXCEPT !.got = g.value]
                /\ UNCHANGED <<audit, currentUser, screen>>
    /\ UNCHANGED <<now, users, attempts, closings, activities, onSessionExpiredCallback,
                   confirmCallback, inflight, saving, confirmArgs>>
    /\ UNCHANGED <<sales, stockEntries, currentStock, changing>>

\* a plausible slip: inThrottle is never set
throttle_open(m, t) == m

\* throttle(func, limit): run func unless a call ran less than limit ago
throttle(m, t) ==
    IF m.listening THEN [m EXCEPT !.inThrottle = TRUE, !.throttleAt = t] ELSE m

\* an activity event (mousedown, keydown, scroll, touchstart, mousemove)
\* reaching handleActivity
Activity ==
    /\ monitor.listening
    /\ IF ~monitor.inThrottle
       THEN LET r == refreshSession(Sec, now)
            IN  /\ session' = r.sec.store
                /\ monitor' = throttle(r.sec.monitor, now)
                /\ ret' = [Ret("activity") EXCEPT !.result = "refresh", !.got = r.value]
       ELSE /\ ret' = [Ret("activity") EXCEPT !.result = "dropped"]
            /\ UNCHANGED <<session, monitor>>
    /\ UNCHANGED <<now, users, attempts, audit, closings, activities, onSessionExpiredCallback,
                   currentUser, screen, confirmCallback, inflight, saving, confirmArgs>>
    /\ UNCHANGED <<sales, stockEntries, currentStock, changing>>

\* an activity event while no listener is registered (no monitor was started,
\* or stopInactivityMonitor removed the listeners): no handler runs
ActivityUnheard ==
    /\ ~monitor.listening
    /\ ret' = [Ret("signal") EXCEPT !.result = "unheard"]
    /\ UNCHANGED <<now, users, session, attempts, audit, closings, activities, monitor,
                   onSessionExpiredCallback, currentUser, screen, confirmCallback, inflight,
                   saving, confirmArgs, sales, stockEntries, currentStock, changing>>

\* the setTimeout of throttle: inThrottle = false
ThrottleReset ==
    /\ monitor.listening
    /\ monitor.inThrottle
    /\ now >= monitor.throttleAt + THROTTLE_LIMIT_MS
    /\ monitor' = [monitor EXCEPT !.inThrottle = FALSE, !.throttleAt = 0]
    /\ ret' = Ret("throttleReset")
    /\ UNCHANGED <<now, users, session, attempts, audit, closings, activities,
                   onSessionExpiredCallback, currentUser, screen, confirmCallback, inflight,
                   saving, confirmArgs>>
    /\ UNCHANGED <<sales, stockEntries, currentStock, changing>>

\* click on extendSessionBtn
ExtendSession ==
    /\ screen = "app"
    /\ LET r == refreshSession(Sec, now)
       IN  /\ session' = r.sec.store
           /\ monitor' = r.sec.monitor
           /\ ret' = [Ret("extend") EXCEPT !.got = r.value]
    /\ UNCHANGED <<now, users, attempts, audit, closings, activities, onSessionExpiredCallback,
                   currentUser, screen, confirmCallback, inflight, saving, confirmArgs>>
    /\ UNCHANGED <<sales, stockEntries, currentStock, changing>>

\* ------------------------------------------------------------------------
\* The confirm dialog and the operations behind it
\* ------------------------------------------------------------------------
isDayLocked(cl, date) == \E i \in DOMAIN cl : cl[i].date = date

addActivity(acts, type, text, t) ==
    LET unshifted == <<[type |-> type, text |-> text, timestamp |-> toISOString(t)]>> \o acts
    IN  IF Len(unshifted) > ACTIVITIES_MAX THEN SubSeq(unshifted, 1, ACTIVITIES_MAX)
        ELSE unshifted

\* click on logoutBtn
LogoutClick ==
    /\ screen = "app"
    /\ confirmCallback' = "logout"
    /\ confirmArgs' = None
    /\ ret' = Ret("logoutClick")
    /\ UNCHANGED <<now, users, session, attempts, audit, closings, activities, monitor,
                   onSessionExpiredCallback, currentUser, screen, inflight, saving>>
    /\ UNCHANGED <<sales, stockEntries, currentStock, changing>>

confirmCloseDay ==
    /\ screen = "app"
    /\ currentUser # None
    /\ IF currentUser.role # "owner" THEN
            /\ ret' = [Ret("confirmCloseDay") EXCEPT !.result = "denied"]
            /\ UNCHANGED <<confirmCallback, confirmArgs>>
       ELSE IF isDayLocked(closings, todayStr(now)) THEN
            /\ ret' = [Ret("confirmCloseDay") EXCEPT !.result = "closed"]
            /\ UNCHANGED <<confirmCallback, confirmArgs>>
       ELSE /\ confirmCallback' = "closeDay"
            /\ confirmArgs' = None
            /\ ret' = [Ret("confirmCloseDay") EXCEPT !.result = "confirm"]
    /\ UNCHANGED <<now, users, session, attempts, audit, closings, activities, monitor,
                   onSessionExpiredCallback, currentUser, screen, inflight, saving>>
    /\ UNCHANGED <<sales, stockEntries, currentStock, changing>>

confirmClearData ==
    /\ screen = "app"
    /\ currentUser # None
    /\ IF currentUser.role # "owner" THEN
            /\ ret' = [Ret("confirmClearData") EXCEPT !.result = "denied"]
            /\ UNCHANGED <<confirmCallback, confirmArgs>>
       ELSE /\ confirmCallback' = "clearData"
            /\ confirmArgs' = None
            /\ ret' = [Ret("confirmClearData") EXCEPT !.result = "confirm"]
    /\ UNCHANGED <<now, users, session, attempts, audit, closings, activities, monitor,
                   onSessionExpiredCallback, currentUser, screen, inflight, saving>>
    /\ UNCHANGED <<sales, stockEntries, currentStock, changing>>

\* closeDay(): the closing record of today (without its totals, which are sums
\* over the day's sales and stock entries)
closeDay(cl, user, t) ==
    Append(cl, [date |-> todayStr(t), closedBy |-> user.username, closedAt |-> toISOString(t)])

\* the callback deleteUserConfirm hands to showConfirm; args are the index
\* and the user it closed over.  splice(index, 1) on the list read now.
deleteUser(us, args) ==
    IF args.index <= Len(us) THEN Remove(us, args.index) ELSE us

\* click on confirmActionBtn: executeConfirm() runs the callback, then
\* closeConfirm(); a callback that throws leaves the dialog as it is
ExecuteConfirm ==
    /\ confirmCallback # "none"
    /\ CASE confirmCallback = "logout" ->
              LET out == logout([audit |-> audit, sec |-> Sec], currentUser, now)
              IN  /\ audit' = out.audit
                  /\ session' = out.sec.store
                  /\ monitor' = out.sec.monitor
                  /\ currentUser' = None
                  /\ screen' = "login"
                  /\ confirmCallback' = "none"
                  /\ confirmArgs' = None
                  /\ ret' = [Ret("executeConfirm") EXCEPT !.arg = <<"logout">>, !.result = "done"]
                  /\ UNCHANGED <<users, closings, activities, sales, stockEntries,
                                 currentStock>>
         [] confirmCallback = "closeDay" ->
              IF currentUser = None
              THEN /\ ret' = [Ret("executeConfirm") EXCEPT !.arg = <<"closeDay">>,
                                                           !.result = "TypeError"]
                   /\ UNCHANGED <<users, audit, session, monitor, currentUser, screen,
                                  confirmCallback, confirmArgs, closings, activities,
                                  sales, stockEntries, currentStock>>
              ELSE /\ closings' = closeDay(closings, currentUser, now)
                   /\ activities' = addActivity(activities, "closing", "Day closed", now)
                   /\ confirmCallback' = "none"
                   /\ confirmArgs' = None
                   /\ ret' = [Ret("executeConfirm") EXCEPT !.arg = <<"closeDay">>,
                                                           !.result = "done"]
                   /\ UNCHANGED <<users, audit, session, monitor, currentUser, screen,
                                  sales, stockEntries, currentStock>>
         [] confirmCallback = "clearData" ->
              /\ closings' = <<>>
              /\ activities' = <<>>
              /\ sales' = <<>>
              /\ stockEntries' = <<>>
              /\ currentStock' = 0
              /\ confirmCallback' = "none"
              /\ confirmArgs' = None
              /\ ret' = [Ret("executeConfirm") EXCEPT !.arg = <<"clearData">>, !.result = "done"]
              /\ UNCHANGED <<users, audit, session, monitor, currentUser, screen>>
         [] confirmCallback = "deleteSale" ->
              /\ sales' = SelectSeq(sales, LAMBDA x : x.id # confirmArgs.id)
              /\ currentStock' = currentStock + confirmArgs.sale.quantity
              /\ activities' = addActivity(activities, "alert", "Deleted sale", now)
              /\ confirmCallback' = "none"
              /\ confirmArgs' = None
              /\ ret' = [Ret("executeConfirm") EXCEPT !.arg = <<"deleteSale">>, !.result = "done"]
              /\ UNCHANGED <<users, audit, session, monitor, currentUser, screen, closings,
                             stockEntries>>
         [] confirmCallback = "deleteUser" ->
              /\ users' = deleteUser(users, confirmArgs)
              /\ audit' = auditLog(audit, "USER_DELETED",
                                   "Deleted user: " \o confirmArgs.user.name \o " (" \o
                                   confirmArgs.user.username \o ")",
                                   IF currentUser = None THEN "" ELSE currentUser.username, now)
              /\ activities' = addActivity(activities, "alert",
                                           "Deleted user " \o confirmArgs.user.name, now)
              /\ confirmCallback' = "none"
              /\ confirmArgs' = None
              /\ ret' = [Ret("executeConfirm") EXCEPT !.arg = <<"deleteUser">>, !.result = "done"]
              /\ UNCHANGED <<session, monitor, currentUser, screen, closings, sales,
                             stockEntries, currentStock>>
    /\ UNCHANGED <<now, attempts, onSessionExpiredCallback, inflight, saving, changing>>

\* the dialog's cancel button: closeConfirm()
CloseConfirm ==
    /\ confirmCallback # "none"
    /\ confirmCallback' = "none"
    /\ confirmArgs' = None
    /\ ret' = Ret("closeConfirm")
    /\ UNCHANGED <<now, users, session, attempts, audit, closings, activities, monitor,
                   onSessionExpiredCallback, currentUser, screen, inflight, saving>>
    /\ UNCHANGED <<sales, stockEntries, currentStock, changing>>

\* ------------------------------------------------------------------------
\* Stock entries and sales.  A date is the day number todayStr() gives; id is
\* the output of generateId().
\* ------------------------------------------------------------------------
\* the saleForm submit handler: addSale(date, paymentMode, quantity, amount,
\* customer, notes)
addSale(date, quantity, id) ==
    /\ screen = "app"
    /\ LET call == [Ret("addSale") EXCEPT !.arg = <<date, quantity, id>>]
       IN  IF isDayLocked(closings, date)
           THEN /\ ret' = [call EXCEPT !.result = "locked"]
                /\ UNCHANGED <<sales, currentStock, activities>>
           ELSE IF quantity > currentStock
           THEN /\ ret' = [call EXCEPT !.result = "stock"]
                /\ UNCHANGED <<sales, currentStock, activities>>
           ELSE /\ sales' = Append(sales, [id |-> id, date |-> date, quantity |-> quantity,
                                           timestamp |-> toISOString(now)])
                /\ currentStock' = IF currentStock - quantity > 0
                                   THEN currentStock - quantity ELSE 0
                /\ activities' = addActivity(activities, "sale", "Sold", now)
                /\ ret' = [call EXCEPT !.result = "true"]
    /\ UNCHANGED <<now, users, session, attempts, audit, closings, monitor,
                   onSessionExpiredCallback, currentUser, screen, confirmCallback, inflight,
                   saving, confirmArgs, stockEntries, changing>>

\* the stockForm submit handler: addStockEntry(date, supplierId, quantity,
\* cost, notes), a supplier being selected
addStockEntry(date, quantity, id) ==
    /\ screen = "app"
    /\ LET call == [Ret("addStockEntry") EXCEPT !.arg = <<date, quantity, id>>]
       IN  IF isDayLocked(closings, date)
           THEN /\ ret' = [call EXCEPT !.result = "locked"]
                /\ UNCHANGED <<stockEntries, currentStock, activities>>
           ELSE /\ stockEntries' = Append(stockEntries,
                                          [id |-> id, date |-> date, quantity |-> quantity,
                                           timestamp |-> toISOString(now)])
                /\ currentStock' = currentStock + quantity
                /\ activities' = addActivity(activities, "purchase", "Received", now)
                /\ ret' = [call EXCEPT !.result = "true"]
    /\ UNCHANGED <<now, users, session, attempts, audit, closings, monitor,
                   onSessionExpiredCallback, currentUser, screen, confirmCallback, inflight,
                   saving, confirmArgs, sales, changing>>

\* deleteSaleConfirm(id): the sale is looked up and its day tested, then the
\* confirm dialog is shown; its callback closes over id and the sale
deleteSaleConfirm(id) ==
    /\ screen = "app"
    /\ LET call == [Ret("deleteSaleConfirm") EXCEPT !.arg = <<id>>]
           found == {i \in DOMAIN sales : sales[i].id = id}
       IN  IF found = {} THEN
                /\ ret' = [call EXCEPT !.result = "missing"]
                /\ UNCHANGED <<confirmCallback, confirmArgs>>
           ELSE IF isDayLocked(closings, sales[Min(found)].date) THEN
                /\ ret' = [call EXCEPT !.result = "locked"]
                /\ UNCHANGED <<confirmCallback, confirmArgs>>
           ELSE /\ confirmCallback' = "deleteSale"
                /\ confirmArgs' = [id |-> id, sale |-> sales[Min(found)]]
                /\ ret' = [call EXCEPT !.result = "confirm"]
    /\ UNCHANGED <<now, users, session, attempts, audit, closings, activities, monitor,
                   onSessionExpiredCallback, currentUser, screen, inflight, saving,
                   sales, stockEntries, currentStock, changing>>

\* ------------------------------------------------------------------------
\* User management.  Positions in the credential list are 1-based here (the
\* code's index + 1); editIndex 0 is the empty editUserIndex field (-1).
\* ------------------------------------------------------------------------
\* what String.length and the validators' regular expressions see of each
\* string of the model: its length, and whether it matches
\* /^[a-zA-Z0-9_.-]+$/ (word), /[a-z]/ (lower), /[A-Z]/ (upper), /[0-9]/ (digit)
Chars(length, word, lower, upper, digit) ==
    [length |-> length, word |-> word, lower |-> lower, upper |-> upper, digit |-> digit]

StringFacts(str) ==
    CASE str = "" -> Chars(0, FALSE, FALSE, FALSE, FALSE)
      [] str = "x" -> Chars(1, TRUE, TRUE, FALSE, FALSE)
      [] str \in {"owner", "staff", "ghost"} -> Chars(5, TRUE, TRUE, FALSE, FALSE)
      [] str \in {"asha", "boss"} -> Chars(4, TRUE, TRUE, FALSE, FALSE)
      [] str = "a b" -> Chars(3, FALSE, TRUE, FALSE, FALSE)
      [] str = "abcdefghijklmnopqrstuvwxyz01234" -> Chars(31, TRUE, TRUE, FALSE, TRUE)
      [] str \in {"Owner@123", "Staff@123", "Newpw@456", "Boss@2020", "Asha@2020"} ->
            Chars(9, FALSE, TRUE, TRUE, TRUE)
      [] str \in {"owner123", "staff123"} -> Chars(8, TRUE, TRUE, FALSE, TRUE)
      [] str = "asha123" -> Chars(7, TRUE, TRUE, FALSE, TRUE)
      [] str = "admin" -> Chars(5, TRUE, TRUE, FALSE, FALSE)
      [] str = "password" -> Chars(8, TRUE, TRUE, FALSE, FALSE)
      [] str = "1234" -> Chars(4, TRUE, FALSE, FALSE, TRUE)
      [] str = "Ab1" -> Chars(3, TRUE, TRUE, TRUE, TRUE)
      [] str = "NEWPW@456" -> Chars(9, FALSE, FALSE, TRUE, TRUE)
      [] str = "Newpw@xyz" -> Chars(9, FALSE, TRUE, TRUE, FALSE)

\* validateUsername(username).valid
validateUsername(username) ==
    LET f == StringFacts(username)
    IN  IF username = "" \/ f.length < 2 \/ f.length > 30 THEN FALSE
        ELSE IF ~f.word THEN FALSE
        ELSE TRUE

\* a plausible slip: only the length of the password is tested
validatePassword_length(password) ==
    LET f == StringFacts(password)
    IN  ~(password = "" \/ f.length < 6) /\ ~(password # "" /\ f.length > 128)

\* validatePassword(password).valid: no issue was pushed
validatePassword(password) ==
    LET f == StringFacts(password)
        issues ==
            (IF password = "" \/ f.length < 6 THEN {"Must be at least 6 characters"} ELSE {})
            \cup (IF password # "" /\ f.length > 128 THEN {"Must be under 128 characters"}
                  ELSE {})
            \cup (IF password # "" /\ ~f.lower
                  THEN {"Must contain at least one lowercase letter"} ELSE {})
            \cup (IF password # "" /\ ~f.upper
                  THEN {"Must contain at least one uppercase letter"} ELSE {})
            \cup (IF password # "" /\ ~f.digit
                  THEN {"Must contain at least one number"} ELSE {})
    IN  issues = {}

\* a plausible slip: saveUser() without its duplicate check
SaveUserCall_nodup(displayName, username, password, role, editIndex) ==
    /\ screen = "app"
    /\ LET call == [Ret("saveUser") EXCEPT !.arg = <<displayName, username, password, role,
                                                     editIndex>>]
       IN  IF displayName = "" \/ username = "" \/ password = ""
                \/ ~validateUsername(username) \/ ~validatePassword(password)
           THEN /\ ret' = [call EXCEPT !.result = "invalid"]
                /\ UNCHANGED saving
           ELSE /\ saving' = Append(saving, [displayName |-> displayName, username |-> username,
                                             password |-> password, role |-> role,
                                             editIndex |-> editIndex, users |-> users])
                /\ ret' = [call EXCEPT !.result = "pending"]
    /\ UNCHANGED <<now, users, session, attempts, audit, closings, activities, monitor,
                   onSessionExpiredCallback, currentUser, screen, confirmCallback, inflight,
                   confirmArgs>>
    /\ UNCHANGED <<sales, stockEntries, currentStock, changing>>

\* saveUser(), up to its await: the form is validated, the list is read and
\* checked for a duplicate (username, role), then hashPassword is awaited
SaveUserCall(displayName, username, password, role, editIndex) ==
    /\ screen = "app"
    /\ LET call == [Ret("saveUser") EXCEPT !.arg = <<displayName, username, password, role,
                                                     editIndex>>]
           duplicate == \E i \in DOMAIN users :
                            /\ users[i].username = username
                            /\ users[i].role = role
                            /\ i # editIndex
       IN  IF displayName = "" \/ username = "" \/ password = ""
                \/ ~validateUsername(username) \/ ~validatePassword(password)
           THEN /\ ret' = [call EXCEPT !.result = "invalid"]
                /\ UNCHANGED saving
           ELSE IF duplicate
           THEN /\ ret' = [call EXCEPT !.result = "duplicate"]
                /\ UNCHANGED saving
           ELSE /\ saving' = Append(saving, [displayName |-> displayName, username |-> username,
                                             password |-> password, role |-> role,
                                             editIndex |-> editIndex, users |-> users])
                /\ ret' = [call EXCEPT !.result = "pending"]
    /\ UNCHANGED <<now, users, session, attempts, audit, closings, activities, monitor,
                   onSessionExpiredCallback, currentUser, screen, confirmCallback, inflight,
                   confirmArgs>>
    /\ UNCHANGED <<sales, stockEntries, currentStock, changing>>

\* the credential saveUser() writes: the old fields, overwritten, without the
\* legacy password field
Credential(username, hashResult, role, name) ==
    [username |-> username, passwordHash |-> hashResult.hash, salt |-> hashResult.salt,
     role |-> role, name |-> name]

\* saveUser(), from the await on: hashPassword has completed for saving[i];
\* the list written is the one read before the await, with one change
SaveUserResume(i) ==
    /\ i \in DOMAIN saving
    /\ \E generated \in Salts :
       LET c == saving[i]
           hashResult == hashPassword(c.password, "", generated)
           cred == Credential(c.username, hashResult, c.role, c.displayName)
           done == [Ret("saveUserResume") EXCEPT !.arg = <<c.displayName, c.username,
                                                           c.password, c.role, c.editIndex>>]
           actor == IF currentUser = None THEN "" ELSE currentUser.username
       IN  /\ saving' = Remove(saving, i)
           /\ IF c.editIndex >= 1 /\ c.editIndex <= Len(c.users)
              THEN LET oldUser == c.users[c.editIndex]
                       own == /\ currentUser # None
                              /\ oldUser.username = currentUser.username
                              /\ oldUser.role = currentUser.role
                   IN  /\ users' = [c.users EXCEPT ![c.editIndex] = cred]
                       /\ IF own
                          THEN \E token \in Tokens :
                                 LET user == [username |-> c.username, role |-> c.role,
                                              name |-> c.displayName]
                                     cs == createSession(Sec, user, now, token)
                                 IN  /\ currentUser' = user
                                     /\ session' = cs.sec.store
                                     /\ monitor' = cs.sec.monitor
                                     /\ audit' = auditLog(audit, "USER_UPDATED",
                                                          "Updated user: " \o c.displayName,
                                                          c.username, now)
                                     /\ ret' = [done EXCEPT !.result = "updated",
                                                            !.created = TRUE, !.rng = token]
                          ELSE /\ audit' = auditLog(audit, "USER_UPDATED",
                                                    "Updated user: " \o c.displayName, actor, now)
                               /\ ret' = [done EXCEPT !.result = "updated"]
                               /\ UNCHANGED <<currentUser, session, monitor>>
                       /\ activities' = addActivity(activities, "closing",
                                                    "Updated user " \o c.displayName, now)
              ELSE /\ users' = Append(c.users, cred)
                   /\ audit' = auditLog(audit, "USER_ADDED",
                                        "Added new user: " \o c.displayName \o " (" \o c.role
                                        \o ")", actor, now)
                   /\ activities' = addActivity(activities, "closing",
                                                "Added new user " \o c.displayName \o " (" \o
                                                c.role \o ")", now)
                   /\ ret' = [done EXCEPT !.result = "added"]
                   /\ UNCHANGED <<currentUser, session, monitor>>
    /\ UNCHANGED <<now, attempts, closings, onSessionExpiredCallback, screen, confirmCallback,
                   inflight, confirmArgs>>
    /\ UNCHANGED <<sales, stockEntries, currentStock, changing>>

\* deleteUserConfirm(index): the guards, then the confirm dialog
deleteUserConfirm(index) ==
    /\ screen = "app"
    /\ LET call == [Ret("deleteUserConfirm") EXCEPT !.arg = <<index>>]
       IN  IF index < 1 \/ index > Len(users) THEN
                /\ ret' = [call EXCEPT !.result = "range"]
                /\ UNCHANGED <<confirmCallback, confirmArgs>>
           ELSE IF /\ currentUser # None
                   /\ users[index].username = currentUser.username
                   /\ users[index].role = currentUser.role THEN
                /\ ret' = [call EXCEPT !.result = "self"]
                /\ UNCHANGED <<confirmCallback, confirmArgs>>
           ELSE IF /\ users[index].role = "owner"
                   /\ Cardinality({i \in DOMAIN users : users[i].role = "owner"}) <= 1 THEN
                /\ ret' = [call EXCEPT !.result = "lastOwner"]
                /\ UNCHANGED <<confirmCallback, confirmArgs>>
           ELSE /\ confirmCallback' = "deleteUser"
                /\ confirmArgs' = [index |-> index, user |-> users[index]]
                /\ ret' = [call EXCEPT !.result = "confirm"]
    /\ UNCHANGED <<now, users, session, attempts, audit, closings, activities, monitor,
                   onSessionExpiredCallback, currentUser, screen, inflight, saving>>
    /\ UNCHANGED <<sales, stockEntries, currentStock, changing>>

\* ------------------------------------------------------------------------
\* changePassword(newPass, confirmPass).  No handler of app.js calls it and
\* the public API does not export it; it is modelled as it would run if called.
\* ------------------------------------------------------------------------
\* changePassword(), up to its await: the password is validated, the list is
\* read and the first credential with the logged-in user's username is found
ChangePasswordCall(newPass, confirmPass) ==
    /\ LET call == [Ret("changePassword") EXCEPT !.arg = <<newPass, confirmPass>>]
           found == {i \in DOMAIN users : users[i].username = currentUser.username}
       IN  IF ~validatePassword(newPass)
           THEN /\ ret' = [call EXCEPT !.result = "weak"]
                /\ UNCHANGED changing
           ELSE IF newPass # confirmPass
           THEN /\ ret' = [call EXCEPT !.result = "mismatch"]
                /\ UNCHANGED changing
           ELSE IF currentUser = None
           THEN /\ ret' = [call EXCEPT !.result = "TypeError"]
                /\ UNCHANGED changing
           ELSE IF found = {}
           THEN /\ ret' = [call EXCEPT !.result = "false"]
                /\ UNCHANGED changing
           ELSE /\ changing' = Append(changing, [newPass |-> newPass, users |-> users,
                                                 index |-> Min(found)])
                /\ ret' = [call EXCEPT !.result = "pending"]
    /\ UNCHANGED <<now, users, session, attempts, audit, closings, activities, monitor,
                   onSessionExpiredCallback, currentUser, screen, confirmCallback, inflight,
                   saving, confirmArgs, sales, stockEntries, currentStock>>

\* changePassword(), from the await on: hashPassword has completed for
\* changing[i]; the list read before the await is written with the found
\* credential's hash and salt replaced, then the change is audited
ChangePasswordResume(i) ==
    /\ i \in DOMAIN changing
    /\ \E generated \in Salts :
       LET c == changing[i]
           hashResult == hashPassword(c.newPass, "", generated)
           user == c.users[c.index]
           done == [Ret("changePasswordResume") EXCEPT !.arg = <<c.newPass, c.index>>]
       IN  /\ changing' = Remove(changing, i)
           /\ users' = [c.users EXCEPT
                          ![c.index] = Credential(user.username, hashResult, user.role,
                                                  user.name)]
           /\ IF currentUser = None
              THEN /\ ret' = [done EXCEPT !.result = "TypeError"]
                   /\ UNCHANGED audit
              ELSE /\ audit' = auditLog(audit, "PASSWORD_CHANGED",
                                        "User changed their password", currentUser.username,
                                        now)
                   /\ ret' = [done EXCEPT !.result = "true"]
    /\ UNCHANGED <<now, session, attempts, closings, activities, monitor,
                   onSessionExpiredCallback, currentUser, screen, confirmCallback, inflight,
                   saving, confirmArgs, sales, stockEntries, currentStock>>

\* ------------------------------------------------------------------------
\* init() over a store left by the release that kept plain-text passwords
\* (no mf_security_version marker): initDefaults resets the two default
\* accounts, audits SECURITY_UPGRADE, then migratePasswords hashes the rest.
\* ------------------------------------------------------------------------
defaultWeakPasswords == {"owner123", "staff123", "admin", "password", "1234"}

LegacyUser(username, password, role, name) ==
    [username |-> username, password |-> password, role |-> role, name |-> name]

\* mf_users as the plain-text release left it
LegacyStores ==
    { << LegacyUser("owner", "Boss@2020", "owner", "Shop Owner"),
         LegacyUser("staff", "staff123", "staff", "Staff Member"),
         LegacyUser("asha", "admin", "staff", "Asha") >>,
      << LegacyUser("owner", "owner123", "owner", "Shop Owner"),
         LegacyUser("asha", "Asha@2020", "owner", "Asha") >> }

HasField(u, f) == f \in DOMAIN u

\* a plausible slip: the hash is added, the plain-text field is not deleted
migrateUser_keep(u, generated) ==
    IF HasField(u, "password") /\ u.password # "" /\ ~HasField(u, "passwordHash")
    THEN LET newPassword == IF u.password \in defaultWeakPasswords
                            THEN (IF u.role = "owner" THEN "Owner@123" ELSE "Staff@123")
                            ELSE u.password
             result == hashPassword(newPassword, "", generated)
         IN  [username |-> u.username, passwordHash |-> result.hash, salt |-> result.salt,
              role |-> u.role, name |-> u.name, password |-> u.password]
    ELSE u

\* the body of migratePasswords' loop for one user
migrateUser(u, generated) ==
    IF HasField(u, "password") /\ u.password # "" /\ ~HasField(u, "passwordHash")
    THEN LET newPassword == IF u.password \in defaultWeakPasswords
                            THEN (IF u.role = "owner" THEN "Owner@123" ELSE "Staff@123")
                            ELSE u.password
             result == hashPassword(newPassword, "", generated)
         IN  [username |-> u.username, passwordHash |-> result.hash, salt |-> result.salt,
              role |-> u.role, name |-> u.name]
    ELSE u

\* migratePasswords(): st is [users, audit]; generated gives each position
\* the salt drawn for it
migratePasswords(st, generated, t) ==
    LET migrated == [i \in DOMAIN st.users |-> migrateUser(st.users[i], generated[i])]
    IN  IF migrated # st.users
        THEN [users |-> migrated,
              audit |-> auditLog(st.audit, "PASSWORD_MIGRATION",
                                 "Migrated and strengthened passwords", "system", t)]
        ELSE st

\* a plausible slip: the upgrade runs whether the version marker is set or not
initDefaults_unmarked(present, stored, version, logs, ownerSalt, staffSalt, generated, t) ==
    IF ~present
    THEN [users |-> DefaultUsers(ownerSalt, staffSalt), audit |-> logs]
    ELSE LET ownerHash == hashPassword("Owner@123", "", ownerSalt)
             staffHash == hashPassword("Staff@123", "", staffSalt)
             updatedUsers ==
                 [i \in DOMAIN stored |->
                    LET u == stored[i]
                    IN  IF u.username = "owner" /\ u.role = "owner"
                        THEN Credential("owner", ownerHash, "owner",
                                        IF u.name = "" THEN "Shop Owner" ELSE u.name)
                        ELSE IF u.username = "staff" /\ u.role = "staff"
                        THEN Credential("staff", staffHash, "staff",
                                        IF u.name = "" THEN "Staff Member" ELSE u.name)
                        ELSE u]
             upgraded == auditLog(logs, "SECURITY_UPGRADE",
                                  "Reset default user credentials to strong passwords",
                                  "system", t)
         IN  migratePasswords([users |-> updatedUsers, audit |-> upgraded], generated, t)

\* initDefaults(): stored is mf_users (<<>> on a fresh installation, where
\* present is FALSE), version is whether mf_security_version is set
initDefaults(present, stored, version, logs, ownerSalt, staffSalt, generated, t) ==
    IF ~present
    THEN [users |-> DefaultUsers(ownerSalt, staffSalt), audit |-> logs]
    ELSE IF ~version
    THEN LET ownerHash == hashPassword("Owner@123", "", ownerSalt)
             staffHash == hashPassword("Staff@123", "", staffSalt)
             updatedUsers ==
                 [i \in DOMAIN stored |->
                    LET u == stored[i]
                    IN  IF u.username = "owner" /\ u.role = "owner"
                        THEN Credential("owner", ownerHash, "owner",
                                        IF u.name = "" THEN "Shop Owner" ELSE u.name)
                        ELSE IF u.username = "staff" /\ u.role = "staff"
                        THEN Credential("staff", staffHash, "staff",
                                        IF u.name = "" THEN "Staff Member" ELSE u.name)
                        ELSE u]
             upgraded == auditLog(logs, "SECURITY_UPGRADE",
                                  "Reset default user credentials to strong passwords",
                                  "system", t)
         IN  migratePasswords([users |-> updatedUsers, audit |-> upgraded], generated, t)
    ELSE [users |-> stored, audit |-> logs]

\* the state after init() over a fresh or a legacy store
InitUsers ==
    /\ now = 0
    /\ \E stored \in {<<>>} \cup LegacyStores, salts \in InstallSalts, salt \in Salts :
            LET generated == [i \in DOMAIN stored |-> salt]
                st == initDefaults(stored # <<>>, stored, FALSE, <<>>, salts[1], salts[2],
                                   generated, 0)
            IN  users = st.users /\ audit = st.audit
    /\ session = None
    /\ attempts = <<>>
    /\ closings = <<>>
    /\ activities = <<>>
    /\ monitor = NoMonitor
    /\ onSessionExpiredCallback = TRUE
    /\ currentUser = None
    /\ screen = "login"
    /\ confirmCallback = "none"
    /\ inflight = <<>>
    /\ saving = <<>>
    /\ confirmArgs = None
    /\ ret = Ret("init")
    /\ sales = <<>>
    /\ stockEntries = <<>>
    /\ currentStock = 0
    /\ changing = <<>>

\* ------------------------------------------------------------------------
\* Page load over the persisted storage: fresh module state, then init():
\* initDefaults finds the users, checkSession reads the session, the expiry
\* handler is registered.  Timers, listeners and suspended calls of the old
\* page are gone.
\* ------------------------------------------------------------------------
checkSession(sec, t) ==
    LET g == getSession(sec, t)
    IN  [sec |-> g.sec,
         currentUser |-> IF g.value # None
                         THEN [username |-> g.value.username, role |-> g.value.role,
                               name |-> g.value.name]
                         ELSE None,
         screen |-> IF g.value # None THEN "app" ELSE "login",
         value |-> g.value]

\* the page is loaded again: mf_users exists and mf_security_version is set
\* (both branches of initDefaults set it, nothing removes it), so initDefaults
\* runs over the stored list with the marker present
Reload ==
    /\ \E salts \in InstallSalts, salt \in Salts :
         LET d == initDefaults(TRUE, users, TRUE, audit, salts[1], salts[2],
                               [i \in DOMAIN users |-> salt], now)
         IN  /\ users' = d.users
             /\ audit' = d.audit
    /\ LET c == checkSession([store |-> session, monitor |-> NoMonitor], now)
       IN  /\ session' = c.sec.store
           /\ monitor' = c.sec.monitor
           /\ currentUser' = c.currentUser
           /\ screen' = c.screen
           /\ ret' = [Ret("reload") EXCEPT !.got = c.value]
    /\ onSessionExpiredCallback' = TRUE
    /\ confirmCallback' = "none"
    /\ confirmArgs' = None
    /\ inflight' = <<>>
    /\ saving' = <<>>
    /\ changing' = <<>>
    /\ UNCHANGED <<now, attempts, closings, activities>>
    /\ UNCHANGED <<sales, stockEntries, currentStock>>

\* ------------------------------------------------------------------------
\* Storage failures.  localStorage.setItem throws (QuotaExceededError) when
\* the origin's quota is used up; whether a given write fails depends on the
\* size of data this model does not hold, so it is a choice.  Each action
\* below is a handler in which one write fails: fault names the key
\* ("session", "users" or "audit").  An exception ends the handler where it
\* is thrown; what ran before stays.
\* ------------------------------------------------------------------------
\* a plausible slip: auditLog() without its try/catch (ok = FALSE is the
\* failing write); the exception reaches the caller, nothing is written
auditLogTry_throw(logs, action, details, username, t, ok) ==
    [logs |-> IF ok THEN auditLog(logs, action, details, username, t) ELSE logs,
     thrown |-> ~ok]

\* auditLog() around a write that succeeds (ok) or throws: the catch block
\* swallows the exception and the stored log stays as it was
auditLogTry(logs, action, details, username, t, ok) ==
    [logs |-> IF ok THEN auditLog(logs, action, details, username, t) ELSE logs,
     thrown |-> FALSE]

\* login() from its await on, with one failing write
LoginResumeFault(i, fault) ==
    /\ i \in DOMAIN inflight
    /\ fault \in {"session", "audit"}
    /\ \E generated \in Salts :
       LET c == inflight[i]
           isValid == verifyPassword(c.password, c.user.passwordHash, c.user.salt, generated)
           done == [Ret("loginResume") EXCEPT !.arg = <<c.username, c.password, c.role>>,
                                              !.fault = fault]
           user == [username |-> c.user.username, role |-> c.user.role, name |-> c.user.name]
       IN  /\ inflight' = Remove(inflight, i)
           /\ IF isValid /\ fault = "session"
              THEN \* createSession: setItem throws after currentUser was assigned
                   /\ currentUser' = user
                   /\ ret' = [done EXCEPT !.result = "QuotaExceededError"]
                   /\ UNCHANGED <<session, monitor, attempts, audit, screen>>
              ELSE IF isValid
              THEN \E token \in Tokens :
                     LET cs == createSession(Sec, user, now, token)
                         logged == auditLogTry(audit, "LOGIN_SUCCESS",
                                               "User logged in as " \o c.role, c.username,
                                               now, FALSE)
                     IN  /\ currentUser' = user
                         /\ session' = cs.sec.store
                         /\ monitor' = cs.sec.monitor
                         /\ attempts' = recordLoginAttempt(attempts, c.username, TRUE, now)
                         /\ audit' = logged.logs
                         /\ IF logged.thrown
                            THEN /\ ret' = [done EXCEPT !.result = "QuotaExceededError",
                                                        !.created = TRUE, !.rng = token]
                                 /\ UNCHANGED screen
                            ELSE /\ ret' = [done EXCEPT !.result = "true", !.created = TRUE,
                                                        !.rng = token]
                                 /\ screen' = "app"
              ELSE /\ fault = "audit"
                   /\ LET logged == auditLogTry(audit, "LOGIN_FAILED",
                                                "Failed login attempt for role: " \o c.role,
                                                c.username, now, FALSE)
                      IN  /\ attempts' = recordLoginAttempt(attempts, c.username, FALSE, now)
                          /\ audit' = logged.logs
                          /\ ret' = [done EXCEPT !.result = IF logged.thrown
                                                            THEN "QuotaExceededError"
                                                            ELSE "false"]
                   /\ UNCHANGED <<session, monitor, currentUser, screen>>
    /\ UNCHANGED <<now, users, closings, activities, onSessionExpiredCallback, confirmCallback,
                   saving, confirmArgs>>
    /\ UNCHANGED <<sales, stockEntries, currentStock, changing>>

\* executeConfirm() running the logout callback while the audit write fails
LogoutFault ==
    /\ confirmCallback = "logout"
    /\ LET logged == auditLogTry(audit, "LOGOUT", "User logged out",
                                 IF currentUser = None THEN "" ELSE currentUser.username,
                                 now, FALSE)
           done == [Ret("executeConfirm") EXCEPT !.arg = <<"logout">>, !.fault = "audit"]
       IN  /\ audit' = logged.logs
           /\ IF logged.thrown
              THEN /\ ret' = [done EXCEPT !.result = "QuotaExceededError"]
                   /\ UNCHANGED <<session, monitor, currentUser, screen, confirmCallback,
                                  confirmArgs>>
              ELSE /\ session' = destroySession(Sec).store
                   /\ monitor' = destroySession(Sec).monitor
                   /\ currentUser' = None
                   /\ screen' = "login"
                   /\ confirmCallback' = "none"
                   /\ confirmArgs' = None
                   /\ ret' = [done EXCEPT !.result = "done"]
    /\ UNCHANGED <<now, users, attempts, closings, activities, onSessionExpiredCallback,
                   inflight, saving>>
    /\ UNCHANGED <<sales, stockEntries, currentStock, changing>>

\* saveUser() from its await on, with one failing write
SaveUserResumeFault(i, fault) ==
    /\ i \in DOMAIN saving
    /\ fault \in {"users", "session", "audit"}
    /\ \E generated \in Salts :
       LET c == saving[i]
           hashResult == hashPassword(c.password, "", generated)
           cred == Credential(c.username, hashResult, c.role, c.displayName)
           done == [Ret("saveUserResume") EXCEPT !.arg = <<c.displayName, c.username,
                                                           c.password, c.role, c.editIndex>>,
                                                 !.fault = fault]
           actor == IF currentUser = None THEN "" ELSE currentUser.username
           edit == c.editIndex >= 1 /\ c.editIndex <= Len(c.users)
           own == /\ edit
                  /\ currentUser # None
                  /\ c.users[c.editIndex].username = currentUser.username
                  /\ c.users[c.editIndex].role = currentUser.role
           user == [username |-> c.username, role |-> c.role, name |-> c.displayName]
       IN  /\ saving' = Remove(saving, i)
           /\ IF fault = "users"
              THEN \* dbSet(DB_KEYS.users, users) throws: only the local copy was changed
                   /\ ret' = [done EXCEPT !.result = "QuotaExceededError"]
                   /\ UNCHANGED <<users, currentUser, session, monitor, audit, activities>>
              ELSE IF fault = "session"
              THEN \* createSession: setItem throws after the list was written and
                   \* currentUser was updated
                   /\ own
                   /\ users' = [c.users EXCEPT ![c.editIndex] = cred]
                   /\ currentUser' = user
                   /\ ret' = [done EXCEPT !.result = "QuotaExceededError"]
                   /\ UNCHANGED <<session, monitor, audit, activities>>
              ELSE LET logged == auditLogTry(audit,
                                     IF edit THEN "USER_UPDATED" ELSE "USER_ADDED",
                                     IF edit THEN "Updated user: " \o c.displayName
                                     ELSE "Added new user: " \o c.displayName \o " (" \o
                                          c.role \o ")",
                                     IF own THEN c.username ELSE actor, now, FALSE)
                   IN  /\ users' = IF edit THEN [c.users EXCEPT ![c.editIndex] = cred]
                                   ELSE Append(c.users, cred)
                       /\ audit' = logged.logs
                       /\ IF own
                          THEN \E token \in Tokens :
                                 LET cs == createSession(Sec, user, now, token)
                                 IN  /\ currentUser' = user
                                     /\ session' = cs.sec.store
                                     /\ monitor' = cs.sec.monitor
                                     /\ ret' = [done EXCEPT
                                                  !.result = IF logged.thrown
                                                             THEN "QuotaExceededError"
                                                             ELSE "updated",
                                                  !.created = TRUE, !.rng = token]
                          ELSE /\ ret' = [done EXCEPT
                                            !.result = IF logged.thrown
                                                       THEN "QuotaExceededError"
                                                       ELSE IF edit THEN "updated" ELSE "added"]
                               /\ UNCHANGED <<currentUser, session, monitor>>
                       /\ activities' =
                            IF logged.thrown THEN activities
                            ELSE IF edit
                            THEN addActivity(activities, "closing",
                                             "Updated user " \o c.displayName, now)
                            ELSE addActivity(activities, "closing",
                                             "Added new user " \o c.displayName \o " (" \o
                                             c.role \o ")", now)
    /\ UNCHANGED <<now, attempts, closings, onSessionExpiredCallback, screen, confirmCallback,
                   inflight, confirmArgs>>
    /\ UNCHANGED <<sales, stockEntries, currentStock, changing>>

\* ------------------------------------------------------------------------
\* Backup encryption.  A JavaScript value is [t: its type, v: its content];
\* an array holds a sequence of values, an object a sequence of <<key, value>>
\* members.  The primitives are symbolic: PBKDF2 is injective in (passphrase,
\* salt); AES-GCM decryption returns the plaintext only under the key and iv
\* of the encryption and with every bit of ciphertext and tag intact.
\* ------------------------------------------------------------------------
JsValue(t, v) == [t |-> t, v |-> v]
JsNull == JsValue("null", "")
JsUndefined == JsValue("undefined", "")

\* what JSON.stringify writes for a value inside an array or an object:
\* NaN becomes null, a Date its ISO string, undefined has no representation
SerializeJSONProperty(x) ==
    CASE x.t = "nan" -> JsNull
      [] x.t = "date" -> JsValue("string", x.v)
      [] OTHER -> x

\* JSON.stringify(data), as the JSON document written (JsUndefined when the
\* result is undefined): array holes become null, members whose value is
\* undefined are left out
JSONstringify(data) ==
    CASE data.t = "array" ->
            JsValue("array",
                    [i \in DOMAIN data.v |->
                        IF data.v[i].t = "undefined" THEN JsNull
                        ELSE SerializeJSONProperty(data.v[i])])
      [] data.t = "object" ->
            JsValue("object",
                    LET kept == SelectSeq(data.v, LAMBDA m : m[2].t # "undefined")
                    IN  [i \in DOMAIN kept |-> <<kept[i][1], SerializeJSONProperty(kept[i][2])>>])
      [] OTHER -> SerializeJSONProperty(data)

\* TextEncoder.encode(str): encode(undefined) is the encoding of ""
TextEncode(str) == IF str = JsUndefined THEN "" ELSE <<"utf8", str>>

\* JSON.parse(TextDecoder.decode(bytes)): the empty text is a SyntaxError
JSONparse(bytes) ==
    IF bytes = "" THEN [ok |-> FALSE, data |-> JsUndefined, error |-> "SyntaxError"]
    ELSE [ok |-> TRUE, data |-> bytes[2], error |-> ""]

\* arrayBufferToBase64: the canonical encoding of the bytes.  slack is the
\* value of the bits of the last character that encode no byte (zero in the
\* canonical encoding); wellFormed is whether atob accepts the string
arrayBufferToBase64(bytes) == [bytes |-> bytes, slack |-> 0, wellFormed |-> TRUE]

\* base64ToArrayBuffer: atob ignores the slack bits, and throws on a string
\* that is not base64
base64ToArrayBuffer(base64) ==
    [ok |-> base64.wellFormed, bytes |-> IF base64.wellFormed THEN base64.bytes ELSE ""]

PBKDF2(passphrase, salt) == <<"pbkdf2", passphrase, salt>>

AesGcmEncrypt(key, iv, plaintext) ==
    [key |-> key, iv |-> iv, plaintext |-> plaintext, intact |-> TRUE]

AesGcmDecrypt(key, iv, ciphertext) ==
    IF ciphertext.intact /\ ciphertext.key = key /\ ciphertext.iv = iv
    THEN [ok |-> TRUE, plaintext |-> ciphertext.plaintext]
    ELSE [ok |-> FALSE, plaintext |-> ""]

\* encryptBackupData(data, passphrase); salt and iv are the outputs of
\* crypto.getRandomValues in this call
encryptBackupData(data, passphrase, salt, iv) ==
    LET jsonStr == JSONstringify(data)
        key == PBKDF2(passphrase, salt)
        encrypted == AesGcmEncrypt(key, iv, TextEncode(jsonStr))
    IN  [encrypted |-> arrayBufferToBase64(encrypted), salt |-> arrayBufferToBase64(salt),
         iv |-> arrayBufferToBase64(iv), version |-> "2.0", isEncrypted |-> TRUE]

Failure(error) == [ok |-> FALSE, data |-> JsUndefined, error |-> error]

\* a plausible slip: the decrypted text is returned without JSON.parse
decryptBackupData_text(encryptedData, passphrase) ==
    LET salt == base64ToArrayBuffer(encryptedData.salt)
        iv == base64ToArrayBuffer(encryptedData.iv)
        ciphertext == base64ToArrayBuffer(encryptedData.encrypted)
    IN  IF ~salt.ok \/ ~iv.ok \/ ~ciphertext.ok THEN Failure("InvalidCharacterError")
        ELSE LET decrypted == AesGcmDecrypt(PBKDF2(passphrase, salt.bytes), iv.bytes,
                                            ciphertext.bytes)
             IN  IF ~decrypted.ok THEN Failure("OperationError")
                 ELSE [ok |-> TRUE, data |-> JsValue("string", decrypted.plaintext),
                       error |-> ""]

\* a plausible slip: a failure is caught and null is returned
decryptBackupData_null(encryptedData, passphrase) ==
    LET salt == base64ToArrayBuffer(encryptedData.salt)
        iv == base64ToArrayBuffer(encryptedData.iv)
        ciphertext == base64ToArrayBuffer(encryptedData.encrypted)
    IN  IF ~salt.ok \/ ~iv.ok \/ ~ciphertext.ok THEN [ok |-> TRUE, data |-> JsNull, error |-> ""]
        ELSE LET decrypted == AesGcmDecrypt(PBKDF2(passphrase, salt.bytes), iv.bytes,
                                            ciphertext.bytes)
             IN  IF ~decrypted.ok THEN [ok |-> TRUE, data |-> JsNull, error |-> ""]
                 ELSE JSONparse(decrypted.plaintext)

\* decryptBackupData(encryptedData, passphrase): the value returned, or the
\* error thrown
decryptBackupData(encryptedData, passphrase) ==
    LET salt == base64ToArrayBuffer(encryptedData.salt)
        iv == base64ToArrayBuffer(encryptedData.iv)
        ciphertext == base64ToArrayBuffer(encryptedData.encrypted)
    IN  IF ~salt.ok \/ ~iv.ok \/ ~ciphertext.ok THEN Failure("InvalidCharacterError")
        ELSE LET decrypted == AesGcmDecrypt(PBKDF2(passphrase, salt.bytes), iv.bytes,
                                            ciphertext.bytes)
             IN  IF ~decrypted.ok THEN Failure("OperationError")
                 ELSE JSONparse(decrypted.plaintext)

\* ------------------------------------------------------------------------
\* Specifications.  The user's operations are bounded by the length of the
\* audit log they leave; each scenario has its own clock step.
\* ------------------------------------------------------------------------
\* the login form submitted with one of the inputs S
Submit(S, maxOps) ==
    \E c \in S :
        /\ Len(inflight) < MaxInflight
        /\ Len(audit) + Len(inflight) < maxOps
        /\ LoginCall(c[1], c[2], c[3])

\* the session scenarios: the whole next-state relation, 10-minute steps
SessionInputs == {<<"owner", "Owner@123", "owner">>, <<"owner", "Staff@123", "owner">>}
SessionStep == 10 * MS_PER_MINUTE

Login == Submit(SessionInputs, MaxSessionOps)
Resume == \E i \in 1..MaxInflight : LoginResume(i)
Tick10 == Tick(SessionStep, SessionHorizon * SessionStep)
Logout == Len(audit) < MaxSessionOps /\ LogoutClick

Next ==
    \/ Login
    \/ Resume
    \/ Tick10
    \/ Poll
    \/ Activity
    \/ ActivityUnheard
    \/ ThrottleReset
    \/ ExtendSession
    \/ Reload
    \/ Logout
    \/ ExecuteConfirm
    \/ CloseConfirm

Spec == Init /\ [][Next]_vars

\* the rate-limiter scenarios: logins only, steps of half a lockout
RateInputs == {<<"owner", "Owner@123", "owner">>, <<"owner", "owner123", "owner">>,
               <<"ghost", "Owner@123", "owner">>}
RateStep == LOCKOUT_DURATION_MS \div 2

LoginRate == Submit(RateInputs, MaxRateOps)
TickRate == Tick(RateStep, RateHorizon * RateStep)

LogoutRate == Len(audit) < MaxRateOps /\ LogoutClick

NextRate ==
    \/ LoginRate
    \/ Resume
    \/ TickRate
    \/ Reload
    \/ LogoutRate
    \/ ExecuteConfirm

SpecRate == Init /\ [][NextRate]_vars

\* the owner-only operations behind the confirm dialog, 10-minute steps
OpsInputs == {<<"owner", "Owner@123", "owner">>, <<"staff", "Staff@123", "staff">>}

LoginOps == Submit(OpsInputs, MaxSessionOps)

NextOps ==
    \/ LoginOps
    \/ Resume
    \/ Tick10
    \/ Poll
    \/ Activity
    \/ Logout
    \/ confirmCloseDay
    \/ confirmClearData
    \/ ExecuteConfirm
    \/ CloseConfirm

SpecOps == Init /\ [][NextOps]_vars

\* user management: logins, saveUser, deleteUserConfirm, over a fresh or a
\* migrated store, 10-minute steps
MaxUserOps == 3
UserHorizon == 4
MaxSaving == 2

UserLogins == {<<"owner", "Owner@123", "owner">>, <<"owner", "owner123", "owner">>}
UserForms == { <<"Asha", "asha", "Newpw@456", "staff", 0>>,
               <<"Boss", "owner", "Newpw@456", "owner", 0>>,
               <<"Boss", "boss", "Newpw@456", "owner", 1>>,
               <<"Asha", "asha", "Newpw@456", "staff", 3>>,
               <<"Asha", "asha", "asha123", "staff", 0>>,
               <<"Boss", "owner", "Newpw@456", "staff", 1>> }

\* the operations of one behaviour, counted from the entries init() left
UserOps == Len(audit) + Len(inflight) + Len(saving)
InitEntries == IF \E i \in DOMAIN audit : audit[i].action = "SECURITY_UPGRADE" THEN 2 ELSE 0

LoginUsers ==
    \E c \in UserLogins :
        /\ Len(inflight) < MaxInflight
        /\ UserOps < MaxUserOps + InitEntries
        /\ LoginCall(c[1], c[2], c[3])
SaveUser ==
    \E f \in UserForms :
        /\ Len(saving) < MaxSaving
        /\ UserOps < MaxUserOps + InitEntries
        /\ SaveUserCall(f[1], f[2], f[3], f[4], f[5])
SaveResume == \E i \in 1..MaxSaving : SaveUserResume(i)
DeleteUser == \E index \in 1..3 : UserOps < MaxUserOps + InitEntries /\ deleteUserConfirm(index)
LogoutUsers == UserOps < MaxUserOps + InitEntries /\ LogoutClick
TickUsers == Tick(SessionStep, UserHorizon * SessionStep)

NextUsers ==
    \/ LoginUsers
    \/ Resume
    \/ SaveUser
    \/ SaveResume
    \/ DeleteUser
    \/ LogoutUsers
    \/ ExecuteConfirm
    \/ CloseConfirm
    \/ TickUsers
    \/ Poll

SpecUsers == InitUsers /\ [][NextUsers]_vars

\* the audit log near its capacity: the installation has been in use, the
\* owner logged in and out once an hour (n / 2 times), the last time an hour
\* ago; then logins and logouts go on
MaxAuditOps == 4
HistoryStep == 60 * MS_PER_MINUTE

\* entry k of the log (1 is the newest) after n entries
History(n) ==
    [k \in 1..n |->
        [action |-> IF k % 2 = 1 THEN "LOGOUT" ELSE "LOGIN_SUCCESS",
         details |-> IF k % 2 = 1 THEN "User logged out" ELSE "User logged in as owner",
         username |-> "owner", timestamp |-> toISOString(0 - k * HistoryStep),
         userAgent |-> "ua"]]

\* the entries written since the initial state
NewEntries == Cardinality({i \in DOMAIN audit : audit[i].timestamp[2] >= 0})

InitAudit ==
    /\ now = 0
    /\ \E salts \in InstallSalts : users = DefaultUsers(salts[1], salts[2])
    /\ session = None
    /\ attempts = <<[username |-> "owner", timestamp |-> 0 - 2 * HistoryStep, success |-> TRUE]>>
    /\ \E n \in {AUDIT_MAX - 2, AUDIT_MAX} : audit = History(n)
    /\ closings = <<>>
    /\ activities = <<>>
    /\ monitor = NoMonitor
    /\ onSessionExpiredCallback = TRUE
    /\ currentUser = None
    /\ screen = "login"
    /\ confirmCallback = "none"
    /\ inflight = <<>>
    /\ saving = <<>>
    /\ confirmArgs = None
    /\ ret = Ret("init")
    /\ sales = <<>>
    /\ stockEntries = <<>>
    /\ currentStock = 0
    /\ changing = <<>>

LoginAudit ==
    \E c \in RateInputs :
        /\ Len(inflight) < MaxInflight
        /\ NewEntries + Len(inflight) < MaxAuditOps
        /\ LoginCall(c[1], c[2], c[3])
LogoutAudit == NewEntries < MaxAuditOps /\ LogoutClick
TickAudit == Tick(SessionStep, SessionStep)

NextAudit ==
    \/ LoginAudit
    \/ Resume
    \/ LogoutAudit
    \/ ExecuteConfirm
    \/ TickAudit

SpecAudit == InitAudit /\ [][NextAudit]_vars

\* logins, logouts and saveUser over a store whose writes can fail
MaxFaultOps == 5

FaultOps == Len(audit) + Len(attempts) + Len(activities) + Len(inflight) + Len(saving)
FaultForms == { <<"Asha", "asha", "Newpw@456", "staff", 0>>,
                <<"Boss", "boss", "Newpw@456", "owner", 1>> }

LoginFault ==
    \E c \in UserLogins :
        /\ Len(inflight) < MaxInflight
        /\ FaultOps < MaxFaultOps
        /\ LoginCall(c[1], c[2], c[3])
ResumeFault == \E i \in 1..MaxInflight, fault \in {"session", "audit"} : LoginResumeFault(i, fault)
SaveFault ==
    \E f \in FaultForms :
        /\ Len(saving) < MaxSaving
        /\ FaultOps < MaxFaultOps
        /\ SaveUserCall(f[1], f[2], f[3], f[4], f[5])
SaveResumeFault ==
    \E i \in 1..MaxSaving, fault \in {"users", "session", "audit"} : SaveUserResumeFault(i, fault)

NextFault ==
    \/ LoginFault
    \/ Resume
    \/ ResumeFault
    \/ SaveFault
    \/ SaveResume
    \/ SaveResumeFault
    \/ LogoutClick
    \/ ExecuteConfirm
    \/ LogoutFault

SpecFault == Init /\ [][NextFault]_vars

\* the hashing and backup functions called on their own: each step is one
\* call (or one composition of calls) with inputs from the sets below
Passwords == {"Owner@123", "Staff@123", ""}
GivenSalts == {"", "a1", "b2"}
FreshSalts == Salts \cup {"d4"}
Passphrases == {"k1", "k2"}
BackupSalts == {"s1"}
BackupIvs == {"iv1"}

Scalars ==
    { JsValue("number", "50"), JsValue("string", "My Milk Shop"), JsValue("boolean", "true"),
      JsNull, JsValue("nan", ""), JsUndefined, JsValue("date", "2024-01-01T00:00:00.000Z") }
BackupData ==
    Scalars
    \cup { JsValue("array", <<>>),
           JsValue("array", <<JsValue("number", "50"), JsNull>>),
           JsValue("array", <<JsValue("number", "50"), JsUndefined>>),
           JsValue("object", << <<"defaultPrice", JsValue("number", "50")>>,
                                <<"shopName", JsValue("string", "My Milk Shop")>> >>),
           JsValue("object", << <<"defaultPrice", JsValue("nan", "")>> >>),
           JsValue("object", << <<"shopPhone", JsUndefined>> >>) }

\* the blob handed to decryptBackupData: as encrypted, or changed in one field
Tampers == {"none", "ciphertext", "salt", "iv", "saltEncoding", "malformedIv", "malformedSalt"}
Tamper(blob, how) ==
    CASE how = "ciphertext" -> [blob EXCEPT !.encrypted.bytes.intact = FALSE]
      [] how = "salt" -> [blob EXCEPT !.salt.bytes = "s9"]
      [] how = "iv" -> [blob EXCEPT !.iv.bytes = "iv9"]
      [] how = "saltEncoding" -> [blob EXCEPT !.salt.slack = 1]
      [] how = "malformedIv" -> [blob EXCEPT !.iv.wellFormed = FALSE]
      [] how = "malformedSalt" -> [blob EXCEPT !.salt.wellFormed = FALSE]
      [] OTHER -> blob

\* verifyPassword(q, (await hashPassword(p, s)).hash, s)
HashThenVerify ==
    /\ \E p \in Passwords, q \in Passwords, s \in GivenSalts, g1 \in FreshSalts, g2 \in FreshSalts :
          LET h == hashPassword(p, s, g1)
              v == verifyPassword(q, h.hash, s, g2)
          IN  ret' = [Ret("verifyPassword") EXCEPT !.arg = <<p, q, s>>, !.got = h,
                                                   !.result = IF v THEN "true" ELSE "false"]
    /\ UNCHANGED <<now, users, session, attempts, audit, closings, activities, monitor,
                   onSessionExpiredCallback, currentUser, screen, confirmCallback, inflight,
                   saving, confirmArgs>>
    /\ UNCHANGED <<sales, stockEntries, currentStock, changing>>

\* decryptBackupData(blob, k2) on the blob of encryptBackupData(d, k),
\* possibly changed on the way
EncryptThenDecrypt ==
    /\ \E d \in BackupData, k \in Passphrases, k2 \in Passphrases, salt \in BackupSalts,
          iv \in BackupIvs, how \in Tampers :
          LET blob == encryptBackupData(d, k, salt, iv)
              r == decryptBackupData(Tamper(blob, how), k2)
          IN  ret' = [Ret("decryptBackupData") EXCEPT !.arg = <<d, k, k2, how>>, !.got = r,
                                                      !.result = IF r.ok THEN "returned"
                                                                 ELSE "thrown"]
    /\ UNCHANGED <<now, users, session, attempts, audit, closings, activities, monitor,
                   onSessionExpiredCallback, currentUser, screen, confirmCallback, inflight,
                   saving, confirmArgs>>
    /\ UNCHANGED <<sales, stockEntries, currentStock, changing>>

\* init() over a store the plain-text release left, then verifyPassword of
\* one record's original password against what init() stored for it
MigrateThenVerify ==
    /\ \E stored \in LegacyStores, salts \in InstallSalts, salt \in Salts, g \in FreshSalts :
         \E i \in DOMAIN stored :
          LET d == initDefaults(TRUE, stored, FALSE, <<>>, salts[1], salts[2],
                                [k \in DOMAIN stored |-> salt], 0)
              u == d.users[i]
              v == verifyPassword(stored[i].password, u.passwordHash, u.salt, g)
          IN  ret' = [Ret("migrate") EXCEPT !.arg = <<stored[i].username, stored[i].password,
                                                      stored[i].role>>,
                                            !.got = u,
                                            !.result = IF v THEN "true" ELSE "false"]
    /\ UNCHANGED <<now, users, session, attempts, audit, closings, activities, monitor,
                   onSessionExpiredCallback, currentUser, screen, confirmCallback, inflight,
                   saving, confirmArgs>>
    /\ UNCHANGED <<sales, stockEntries, currentStock, changing>>

NextCrypto ==
    \/ HashThenVerify
    \/ EncryptThenDecrypt
    \/ MigrateThenVerify

SpecCrypto == Init /\ [][NextCrypto]_vars

\* password changes: the installation has been in use (the owner once logged
\* in, added two accounts named asha, one for each role, cleared the shop data
\* and logged out, an hour apart each), or is fresh; then logins,
\* changePassword and saveUser, 10-minute steps
MaxPasswordOps == 3
MaxChanging == 2

AshaCredential(role) == Credential("asha", hashPassword("Newpw@456", "", "c3"), role, "Asha")

\* the audit log the four operations of that history left
PasswordHistory(first, second) ==
    auditLog(
      auditLog(
        auditLog(
          auditLog(<<>>, "LOGIN_SUCCESS", "User logged in as owner", "owner",
                   0 - 4 * HistoryStep),
          "USER_ADDED", "Added new user: Asha (" \o first \o ")", "owner", 0 - 3 * HistoryStep),
        "USER_ADDED", "Added new user: Asha (" \o second \o ")", "owner", 0 - 2 * HistoryStep),
      "LOGOUT", "User logged out", "owner", 0 - HistoryStep)

InitPassword ==
    /\ now = 0
    /\ \E salts \in InstallSalts :
         \/ /\ users = DefaultUsers(salts[1], salts[2])
            /\ audit = <<>>
            /\ attempts = <<>>
         \/ \E order \in {<<"staff", "owner">>, <<"owner", "staff">>} :
              /\ users = DefaultUsers(salts[1], salts[2])
                           \o <<AshaCredential(order[1]), AshaCredential(order[2])>>
              /\ audit = PasswordHistory(order[1], order[2])
              /\ attempts = recordLoginAttempt(<<>>, "owner", TRUE, 0 - 4 * HistoryStep)
    /\ session = None
    /\ closings = <<>>
    /\ activities = <<>>
    /\ monitor = NoMonitor
    /\ onSessionExpiredCallback = TRUE
    /\ currentUser = None
    /\ screen = "login"
    /\ confirmCallback = "none"
    /\ inflight = <<>>
    /\ saving = <<>>
    /\ confirmArgs = None
    /\ sales = <<>>
    /\ stockEntries = <<>>
    /\ currentStock = 0
    /\ changing = <<>>
    /\ ret = Ret("init")

PasswordLogins == {<<"owner", "Owner@123", "owner">>, <<"asha", "Newpw@456", "owner">>,
                   <<"asha", "Newpw@456", "staff">>}
NewPasswords == {"Staff@123", "Ab1", "NEWPW@456", "Newpw@xyz", "owner123", ""}
PasswordForms == { <<"Boss", "boss", "Newpw@456", "owner", 0>>,
                   <<"Asha", "asha", "Staff@123", "staff", 3>>,
                   <<"Boss", "a b", "Newpw@456", "owner", 0>>,
                   <<"Boss", "x", "Newpw@456", "owner", 0>>,
                   <<"Boss", "abcdefghijklmnopqrstuvwxyz01234", "Newpw@456", "owner", 0>>,
                   <<"Boss", "boss", "Ab1", "owner", 0>>,
                   <<"Boss", "boss", "NEWPW@456", "owner", 0>>,
                   <<"Boss", "boss", "Newpw@xyz", "owner", 2>> }

PasswordOps == NewEntries + Len(inflight) + Len(saving) + Len(changing)

LoginPassword ==
    \E c \in PasswordLogins :
        /\ Len(inflight) < MaxInflight
        /\ PasswordOps < MaxPasswordOps
        /\ LoginCall(c[1], c[2], c[3])
ChangePassword ==
    \E newPass \in NewPasswords :
      \E confirmPass \in {newPass, "Owner@123"} :
        /\ Len(changing) < MaxChanging
        /\ PasswordOps < MaxPasswordOps
        /\ ChangePasswordCall(newPass, confirmPass)
ChangeResume == \E i \in 1..MaxChanging : ChangePasswordResume(i)
SavePassword ==
    \E f \in PasswordForms :
        /\ Len(saving) < MaxSaving
        /\ PasswordOps < MaxPasswordOps
        /\ SaveUserCall(f[1], f[2], f[3], f[4], f[5])
LogoutPassword == PasswordOps < MaxPasswordOps /\ LogoutClick

NextPassword ==
    \/ LoginPassword
    \/ Resume
    \/ ChangePassword
    \/ ChangeResume
    \/ SavePassword
    \/ SaveResume
    \/ LogoutPassword
    \/ ExecuteConfirm
    \/ TickUsers
    \/ Poll

SpecPassword == InitPassword /\ [][NextPassword]_vars

\* the lockout clock: failed logins at instants around the minute and
\* five-minute marks, to the millisecond
MaxLockOps == 6
LockInstants == {0, 1, MS_PER_MINUTE - 1, MS_PER_MINUTE, MS_PER_MINUTE + 1,
                 4 * MS_PER_MINUTE, LOCKOUT_DURATION_MS - 1, LOCKOUT_DURATION_MS,
                 LOCKOUT_DURATION_MS + 1, LOCKOUT_DURATION_MS + MS_PER_MINUTE}
LockInputs == {<<"ghost", "Owner@123", "owner">>, <<"owner", "owner123", "owner">>}

LoginLock == Submit(LockInputs, MaxLockOps)
TickLock ==
    \E t \in LockInstants :
        /\ t > now
        /\ Tick(t - now, LOCKOUT_DURATION_MS + MS_PER_MINUTE)

NextLock ==
    \/ LoginLock
    \/ Resume
    \/ TickLock

SpecLock == Init /\ [][NextLock]_vars

\* the page loaded again and again over a fresh or a migrated store, with
\* logins and saveUser in between, 10-minute steps
MaxMigrateOps == 2

MigrateLogins == {<<"owner", "Owner@123", "owner">>, <<"asha", "Asha@2020", "owner">>}
MigrateForms == { <<"Boss", "owner", "Newpw@456", "owner", 1>>,
                  <<"Asha", "asha", "Newpw@456", "staff", 0>> }

LoginMigrate ==
    \E c \in MigrateLogins :
        /\ Len(inflight) < MaxInflight
        /\ UserOps < MaxMigrateOps + InitEntries
        /\ LoginCall(c[1], c[2], c[3])
SaveMigrate ==
    \E f \in MigrateForms :
        /\ Len(saving) < MaxSaving
        /\ UserOps < MaxMigrateOps + InitEntries
        /\ SaveUserCall(f[1], f[2], f[3], f[4], f[5])

NextMigrate ==
    \/ LoginMigrate
    \/ Resume
    \/ SaveMigrate
    \/ SaveResume
    \/ Reload
    \/ TickUsers

SpecMigrate == InitUsers /\ [][NextMigrate]_vars

\* the day's records: stock entries, sales, their deletion and the day
\* closing, by the owner and by the staff, one login at a time; the clock
\* moves once, past the session timeout
MaxDayOps == 4
MaxDayEntries == 2
DayStep == SESSION_TIMEOUT_MS + 10 * MS_PER_MINUTE

DayDates == {0, 1}
DayIds == {"id1", "id2"}
DayQuantity == 2 * 10

UsedIds == {sales[i].id : i \in DOMAIN sales} \cup {stockEntries[i].id : i \in DOMAIN stockEntries}

LoginDay ==
    \E c \in OpsInputs :
        /\ inflight = <<>>
        /\ Len(audit) < MaxDayOps
        /\ LoginCall(c[1], c[2], c[3])
TickDay == Tick(DayStep, DayStep)
LogoutDay == Len(audit) < MaxDayOps /\ LogoutClick
StockDay ==
    \E date \in DayDates, id \in DayIds \ UsedIds :
        /\ Len(activities) < MaxDayEntries
        /\ addStockEntry(date, DayQuantity, id)
SaleDay ==
    \E date \in DayDates, id \in DayIds \ UsedIds :
        /\ Len(activities) < MaxDayEntries
        /\ addSale(date, DayQuantity, id)
DeleteSaleDay == \E id \in DayIds : deleteSaleConfirm(id)

NextDay ==
    \/ LoginDay
    \/ Resume
    \/ TickDay
    \/ Poll
    \/ LogoutDay
    \/ StockDay
    \/ SaleDay
    \/ DeleteSaleDay
    \/ confirmCloseDay
    \/ ExecuteConfirm
    \/ CloseConfirm

SpecDay == Init /\ [][NextDay]_vars

\* the session scenarios under the scheduling the browser guarantees: a
\* timer that is due fires (the poll interval, the throttle timeout), a
\* promise that is settled runs its continuation, and the clock moves on (up
\* to the horizon).  What the user does is under no obligation.
MaxLiveOps == 2

LoginLive ==
    /\ inflight = <<>>
    /\ Len(audit) < MaxLiveOps
    /\ LoginCall("owner", "Owner@123", "owner")

NextLive ==
    \/ LoginLive
    \/ Resume
    \/ Tick10
    \/ Poll
    \/ Activity
    \/ ThrottleReset
    \/ ExtendSession
    \/ Reload

SpecLive ==
    /\ Init
    /\ [][NextLive]_vars
    /\ WF_vars(Tick10)
    /\ WF_vars(Poll)
    /\ WF_vars(ThrottleReset)
    /\ WF_vars(Resume)

\* the throttle of the activity listeners, to the millisecond around its
\* 5 seconds: the owner logs in, activity signals arrive, the owner logs out
\* and in again (a new monitor instance)
MaxThrottleOps == 3
ThrottleInstants == {1, THROTTLE_LIMIT_MS \div 2, THROTTLE_LIMIT_MS - 1, THROTTLE_LIMIT_MS,
                     THROTTLE_LIMIT_MS + 1, 2 * THROTTLE_LIMIT_MS - 1, 2 * THROTTLE_LIMIT_MS,
                     2 * THROTTLE_LIMIT_MS + 1, POLL_INTERVAL_MS, POLL_INTERVAL_MS + 1}

LoginThrottle ==
    /\ inflight = <<>>
    /\ Len(audit) < MaxThrottleOps
    /\ LoginCall("owner", "Owner@123", "owner")
LogoutThrottle == Len(audit) < MaxThrottleOps /\ LogoutClick
TickThrottle ==
    \E t \in ThrottleInstants :
        /\ t > now
        /\ Tick(t - now, POLL_INTERVAL_MS + 1)

NextThrottle ==
    \/ LoginThrottle
    \/ Resume
    \/ TickThrottle
    \/ Activity
    \/ ThrottleReset
    \/ Poll
    \/ LogoutThrottle
    \/ ExecuteConfirm

SpecThrottle == Init /\ [][NextThrottle]_vars

\* the attempt log's retention, to the millisecond around its 15 minutes:
\* logins only
MaxPruneOps == 6
PruneInstants == {1, LOCKOUT_DURATION_MS, ATTEMPT_WINDOW_MS - 1, ATTEMPT_WINDOW_MS,
                  ATTEMPT_WINDOW_MS + 1}

LoginPrune == Submit(RateInputs, MaxPruneOps)
TickPrune ==
    \E t \in PruneInstants :
        /\ t > now
        /\ Tick(t - now, ATTEMPT_WINDOW_MS + 1)

NextPrune ==
    \/ LoginPrune
    \/ Resume
    \/ TickPrune

SpecPrune == Init /\ [][NextPrune]_vars

\* createSession and refreshSession called on their own, statement by
\* statement: each Date.now() in them is a read of the clock of its own, and
\* the clock may move on by a millisecond between two reads.  Calls are made
\* at the 10-minute marks, as long as the drift stays within MaxDrift ms.
MaxDrift == 3
ClockSkews == {0, 1}

CreateSessionCall ==
    /\ \E token \in Tokens, d1 \in ClockSkews, d2 \in ClockSkews :
         /\ (now % SessionStep) + d1 + d2 <= MaxDrift
         /\ LET user == [username |-> "owner", role |-> "owner", name |-> "Shop Owner"]
                cs == createSessionAt(Sec, user, <<now, now + d1, now + d1 + d2>>, token)
            IN  /\ session' = cs.sec.store
                /\ monitor' = cs.sec.monitor
                /\ ret' = [Ret("createSession") EXCEPT !.got = cs.value, !.created = TRUE,
                                                       !.rng = token]
         /\ now' = now + d1 + d2
    /\ UNCHANGED <<users, attempts, audit, closings, activities, onSessionExpiredCallback,
                   currentUser, screen, confirmCallback, inflight, saving, confirmArgs, sales,
                   stockEntries, currentStock, changing>>

RefreshSessionCall ==
    /\ \E d1 \in ClockSkews, d2 \in ClockSkews :
         /\ (now % SessionStep) + d1 + d2 <= MaxDrift
         /\ LET r == refreshSessionAt(Sec, <<now, now + d1, now + d1 + d2>>)
            IN  /\ session' = r.sec.store
                /\ monitor' = r.sec.monitor
                /\ ret' = [Ret("refresh") EXCEPT !.got = r.value]
         /\ now' = now + d1 + d2
    /\ UNCHANGED <<users, attempts, audit, closings, activities, onSessionExpiredCallback,
                   currentUser, screen, confirmCallback, inflight, saving, confirmArgs, sales,
                   stockEntries, currentStock, changing>>

TickClock == Tick(SessionStep, SessionHorizon * SessionStep)

NextClock ==
    \/ CreateSessionCall
    \/ RefreshSessionCall
    \/ TickClock

SpecClock == Init /\ [][NextClock]_vars

\* ========================================================================
\* Claims
\* ========================================================================
\* the failed attempts of the log with a timestamp inside the last
\* LOCKOUT_DURATION, counted without the code's filter
RecentFailures(att, t) ==
    {i \in DOMAIN att : att[i].success = FALSE /\ t - att[i].timestamp < LOCKOUT_DURATION_MS}

\* C1: a login() call that starts while isLoginLocked() reports locked
\* returns false whatever the input, suspends nothing, creates no session,
\* logs nobody in and records no attempt (and no audit entry).
C1_LockedLoginRejected ==
    [][ (ret'.op = "login" /\ isLoginLocked(attempts, now).locked) =>
            /\ ret'.result = "false"
            /\ inflight' = inflight
            /\ session' = session
            /\ currentUser' = currentUser
            /\ attempts' = attempts
            /\ audit' = audit ]_vars

\* C1 witness: the correct password of an existing credential was submitted
\* while locked, and was rejected
C1_Witness ==
    /\ ret.op = "login"
    /\ ret.locked
    /\ ret.arg = <<"owner", "Owner@123", "owner">>
    /\ ret.result = "false"
    /\ session = None

\* C4: isLoginLocked() reports locked exactly when at least MAX_ATTEMPTS (5)
\* failed attempts of the log lie inside the last LOCKOUT_DURATION (5 min);
\* when not locked, remainingAttempts is 5 minus that count, between 1 and 5.
C4_LockedIffFiveRecentFailures ==
    LET r == isLoginLocked(attempts, now)
        n == Cardinality(RecentFailures(attempts, now))
    IN  /\ r.locked <=> n >= MAX_LOGIN_ATTEMPTS
        /\ ~r.locked => /\ r.remainingAttempts = MAX_LOGIN_ATTEMPTS - n
                        /\ r.remainingAttempts \in 1..MAX_LOGIN_ATTEMPTS

\* C4 witness: exactly five failures inside the window, reported as locked
C4_Witness ==
    /\ Cardinality(RecentFailures(attempts, now)) = MAX_LOGIN_ATTEMPTS
    /\ isLoginLocked(attempts, now).locked
    /\ now > 0

\* C5, as claimed: when a failed attempt is recorded while the lockout is on,
\* the lockout still ends at the earliest qualifying failure's timestamp +
\* LOCKOUT_DURATION: read at that time, the resulting log is not locked.
C5_SixthFailureDoesNotExtend ==
    [][ (/\ isLoginLocked(attempts, now).locked
         /\ Len(attempts') = Len(attempts) + 1
         /\ attempts'[Len(attempts')].success = FALSE)
        => LET earliest == Min({attempts[i].timestamp : i \in RecentFailures(attempts, now)})
           IN  ~isLoginLocked(attempts', earliest + LOCKOUT_DURATION_MS).locked ]_vars

\* the session is Active: persisted, and now is not past expiresAt
SessionActive == session # None /\ ~(now > session.expiresAt)

C3_ExpiryCallbackExactlyOnce ==
    [][ ret'.op = "poll" =>
            /\ ret'.cb <=> (session # None /\ now > session.lastActivity + SESSION_TIMEOUT_MS)
            /\ ret'.cb =>
                 /\ Len(audit') = Len(audit) + 2
                 /\ audit'[2].action = "SESSION_EXPIRED"
                 /\ audit'[1].action = "LOGOUT"
                 /\ session' = None
                 /\ currentUser' = None
                 /\ ~monitor'.interval ]_vars

\* C3 witness: a poll found the session of a logged-in user expired and the
\* callback ran
C3_Witness ==
    /\ ret.op = "poll"
    /\ ret.cb
    /\ Len(audit) >= 3
    /\ audit[1].action = "LOGOUT"
    /\ audit[2].action = "SESSION_EXPIRED"
    /\ audit[2].username = "owner"
    /\ audit[3].action = "LOGIN_SUCCESS"
    /\ screen = "login"

\* C6: login() persists a session and sets the logged-in user only in the
\* step that resumes a suspended call whose password hashes, under the salt of
\* the credential found for (username, role), to that credential's hash; the
\* synchronous part of login() and a resumption with a wrong password change
\* neither.
C6_SessionOnlyAfterVerification ==
    [][ (/\ ret'.op \in {"login", "loginResume"}
         /\ (session' # session \/ currentUser' # currentUser))
        => /\ ret'.op = "loginResume"
           /\ \E i \in DOMAIN inflight :
                LET c == inflight[i]
                IN  /\ inflight' = Remove(inflight, i)
                    /\ ret'.arg = <<c.username, c.password, c.role>>
                    /\ c.user.username = c.username
                    /\ c.user.role = c.role
                    /\ SHA256(c.user.salt \o c.password) = c.user.passwordHash
                    /\ session'.username = c.username
                    /\ session'.role = c.role ]_vars

\* C6 witness: a verified login created the session while another login was
\* still suspended in its verification
C6_Witness ==
    /\ ret.op = "loginResume"
    /\ ret.result = "true"
    /\ session # None
    /\ inflight # <<>>

C9_CreateReplaces ==
    [][ ret'.created =>
            /\ session' = [username |-> currentUser'.username, role |-> currentUser'.role,
                           name |-> currentUser'.name, createdAt |-> now,
                           lastActivity |-> now, token |-> ret'.rng,
                           expiresAt |-> now + SESSION_TIMEOUT_MS]
            /\ getSession([store |-> session', monitor |-> monitor'], now).value = session' ]_vars

\* C9 witness: a second login succeeded at the instant of the first, so its
\* session was created over an existing one
C9_Witness ==
    /\ ret.created
    /\ Len(audit) >= 2
    /\ audit[1].action = "LOGIN_SUCCESS"
    /\ audit[2].action = "LOGIN_SUCCESS"
    /\ audit[1].timestamp = audit[2].timestamp
    /\ session.token = "t2"
    /\ session.createdAt > 0

\* C10: whenever no session is persisted (after destroySession or logout) no
\* poll interval and no activity listener is left: with no session, no poll
\* runs, no activity signal is handled and the expiry callback is not invoked.
C10_MonitorStoppedWithSession ==
    [][ /\ session' = None => (~monitor'.interval /\ ~monitor'.listening)
        /\ session = None => (ret'.op \notin {"poll", "activity"} /\ ~ret'.cb) ]_vars

\* C10 witness: after a logout, time passed beyond the poll interval with no
\* session and no monitor
C10_Witness ==
    /\ ret.op = "tick"
    /\ session = None
    /\ Len(audit) >= 2
    /\ audit[1].action = "LOGOUT"
    /\ audit[2].action = "LOGIN_SUCCESS"
    /\ ~monitor.interval
    /\ ~monitor.listening

\* C7, as claimed: the owner-only operations behind the confirm dialog (close
\* the day, clear all data) change the stored data only while the session is
\* Active.
C7_ProtectedOnlyWhileActive ==
    [][ (closings' # closings \/ activities' # activities) => SessionActive ]_vars

\* C12: no two stored credentials share the same (username, role) pair,
\* whatever defaults, migration, adds, updates and deletes produced the list,
\* saveUser calls overlapping in their await included.
C12_UniqueUsernameRole ==
    \A i, j \in DOMAIN users :
        (users[i].username = users[j].username /\ users[i].role = users[j].role) => i = j

\* C12 witness: an update (owner renamed to boss) and an add (asha) have both
\* been written to the list
C12_Witness ==
    /\ ret.op = "saveUserResume"
    /\ \E i \in DOMAIN users : users[i].username = "boss" /\ users[i].role = "owner"
    /\ \E i \in DOMAIN users : users[i].username = "asha" /\ users[i].role = "staff"
    /\ \E i \in DOMAIN audit : audit[i].action = "USER_UPDATED"
    /\ \E i \in DOMAIN audit : audit[i].action = "USER_ADDED"

\* C13: every credential in the store has a non-empty passwordHash and a
\* non-empty salt and no plain-text password field, after init() over a fresh
\* or a legacy store and after every add and update.
C13_HashedNoPlaintext ==
    \A i \in DOMAIN users :
        /\ HasField(users[i], "passwordHash")
        /\ users[i].passwordHash # <<>>
        /\ users[i].passwordHash # ""
        /\ HasField(users[i], "salt")
        /\ users[i].salt # ""
        /\ ~HasField(users[i], "password")

\* C13 witness: a legacy store was migrated, and a user was then added to it
C13_Witness ==
    /\ ret.op = "saveUserResume"
    /\ ret.result = "added"
    /\ \E i \in DOMAIN audit : audit[i].action = "PASSWORD_MIGRATION"
    /\ \E i \in DOMAIN users : users[i].username = "asha" /\ users[i].role = "owner"

\* the entry auditLog puts at the head of the log
IsEntry(e, action, username) ==
    e.action = action /\ e.username = (IF username = "" THEN "system" ELSE username)

\* the username of the logged-in user ("" when there is none)
Actor == IF currentUser = None THEN "" ELSE currentUser.username

\* C14: every security-relevant event appends its audit entry at the head of
\* the log: the migration of a legacy store SECURITY_UPGRADE and
\* PASSWORD_MIGRATION (system), a successful login LOGIN_SUCCESS and a failed
\* one LOGIN_FAILED (the username submitted), a logout LOGOUT and an
\* expiry-forced logout SESSION_EXPIRED then LOGOUT (the logged-in user), a
\* user add, update (password change included) and delete USER_ADDED,
\* USER_UPDATED and USER_DELETED (the logged-in user who made the change).
C14_EventsAudited ==
    /\ (\E i \in DOMAIN users : users[i].username = "asha")
          => /\ Len(audit) = 2
             /\ IsEntry(audit[1], "PASSWORD_MIGRATION", "system")
             /\ IsEntry(audit[2], "SECURITY_UPGRADE", "system")
    /\ [][ /\ (ret'.op = "loginResume" /\ ret'.result = "true")
              => /\ audit' = <<audit'[1]>> \o audit
                 /\ IsEntry(audit'[1], "LOGIN_SUCCESS", ret'.arg[1])
           /\ (ret'.op \in {"login", "loginResume"} /\ ret'.result = "false" /\ ~ret'.locked)
              => /\ audit' = <<audit'[1]>> \o audit
                 /\ IsEntry(audit'[1], "LOGIN_FAILED", ret'.arg[1])
           /\ (ret'.op = "executeConfirm" /\ ret'.arg = <<"logout">>)
              => /\ audit' = <<audit'[1]>> \o audit
                 /\ IsEntry(audit'[1], "LOGOUT", Actor)
           /\ (ret'.op = "poll" /\ (ret'.cb \/ (currentUser # None /\ currentUser' = None)))
              => /\ audit' = <<audit'[1], audit'[2]>> \o audit
                 /\ IsEntry(audit'[2], "SESSION_EXPIRED", Actor)
                 /\ IsEntry(audit'[1], "LOGOUT", Actor)
           /\ (ret'.op = "saveUserResume" /\ ret'.result = "added")
              => /\ audit' = <<audit'[1]>> \o audit
                 /\ IsEntry(audit'[1], "USER_ADDED", Actor)
           /\ (ret'.op = "saveUserResume" /\ ret'.result = "updated")
              => /\ audit' = <<audit'[1]>> \o audit
                 /\ IsEntry(audit'[1], "USER_UPDATED",
                            IF currentUser' = None THEN "" ELSE currentUser'.username)
           /\ (ret'.op = "executeConfirm" /\ ret'.arg = <<"deleteUser">>)
              => /\ audit' = <<audit'[1]>> \o audit
                 /\ IsEntry(audit'[1], "USER_DELETED", Actor) ]_vars

\* C14 witness: over a migrated store the owner logged in and deleted a user;
\* the log holds the four entries
C14_Witness ==
    /\ ret.op = "executeConfirm"
    /\ Len(audit) = 4
    /\ IsEntry(audit[1], "USER_DELETED", "owner")
    /\ IsEntry(audit[2], "LOGIN_SUCCESS", "owner")
    /\ IsEntry(audit[3], "PASSWORD_MIGRATION", "system")
    /\ IsEntry(audit[4], "SECURITY_UPGRADE", "system")

\* C15, as claimed: every bulk data clear (confirmClearData confirmed by an
\* owner) appends an audit log entry recording it.
C15_ClearDataAudited ==
    [][ (ret'.op = "executeConfirm" /\ ret'.arg = <<"clearData">> /\ ret'.result = "done")
        => (Len(audit') = Len(audit) + 1 /\ audit' = <<audit'[1]>> \o audit) ]_vars

\* the instant of an ISO timestamp, in ms
IsoMs(ts) == ts[2] * MS_PER_DAY + ts[3]

\* C16: the audit log never holds more than 200 entries and is ordered newest
\* first; every append puts the new entry at the head and keeps the entries
\* that were there, except that appending to a full log drops exactly the
\* oldest one; getAuditLogs() returns that list.
C16_AuditCappedNewestFirst ==
    /\ Len(audit) <= AUDIT_MAX
    /\ [][ /\ Len(audit') <= AUDIT_MAX
           /\ \A i \in 1..(Len(audit') - 1) :
                  IsoMs(audit'[i].timestamp) >= IsoMs(audit'[i + 1].timestamp)
           /\ audit' # audit =>
                  /\ IsoMs(audit'[1].timestamp) = now
                  /\ getAuditLogs(audit') =
                        <<audit'[1]>> \o
                        SubSeq(audit, 1, IF Len(audit) < AUDIT_MAX THEN Len(audit)
                                         ELSE AUDIT_MAX - 1) ]_vars

\* C16 witness: 200 entries were stored, three more were appended, and the
\* log holds 200 entries of which the oldest is the fourth oldest of before
C16_Witness ==
    /\ Len(audit) = AUDIT_MAX
    /\ NewEntries = 3
    /\ audit[AUDIT_MAX] = History(AUDIT_MAX)[AUDIT_MAX - 3]

\* C11, as claimed: when the write of the session or of the credential list
\* fails with a storage error during login or saveUser, the error propagates
\* and the prior state is left unchanged: the stored session, the logged-in
\* current user and the credential list are what they were.
C11_StorageErrorLeavesStateUnchanged ==
    [][ ret'.fault \in {"session", "users"}
        => /\ ret'.result = "QuotaExceededError"
           /\ session' = session
           /\ currentUser' = currentUser
           /\ users' = users ]_vars

\* C17: when the storage write inside auditLog fails, no error reaches the
\* caller, the stored audit log is unchanged, and the audited operation
\* completes as it does when the write succeeds: a login with the right
\* password returns true with the session created, the user logged in and the
\* attempt recorded; one with a wrong password returns false with the failure
\* recorded; a logout ends the session and its monitor; saveUser stores the
\* hashed credential.
C17_AuditFailureSwallowed ==
    [][ ret'.fault = "audit"
        => /\ audit' = audit
           /\ ret'.result # "QuotaExceededError"
           /\ ret'.op = "loginResume" =>
                \E i \in DOMAIN inflight :
                    LET c == inflight[i]
                    IN  /\ inflight' = Remove(inflight, i)
                        /\ ret'.arg = <<c.username, c.password, c.role>>
                        /\ IF SHA256(c.user.salt \o c.password) = c.user.passwordHash
                           THEN /\ ret'.result = "true"
                                /\ session' # None
                                /\ session'.username = c.username
                                /\ session'.expiresAt = now + SESSION_TIMEOUT_MS
                                /\ monitor'.interval
                                /\ currentUser' # None
                                /\ currentUser'.username = c.username
                                /\ screen' = "app"
                                /\ attempts' = recordLoginAttempt(attempts, c.username, TRUE, now)
                           ELSE /\ ret'.result = "false"
                                /\ attempts' = recordLoginAttempt(attempts, c.username, FALSE, now)
                                /\ UNCHANGED <<session, monitor, currentUser, screen>>
           /\ ret'.op = "executeConfirm" =>
                /\ ret'.result = "done"
                /\ session' = None
                /\ ~monitor'.interval
                /\ currentUser' = None
                /\ screen' = "login"
                /\ confirmCallback' = "none"
           /\ ret'.op = "saveUserResume" =>
                /\ ret'.result \in {"added", "updated"}
                /\ \E j \in DOMAIN users' :
                     /\ users'[j].username = ret'.arg[2]
                     /\ users'[j].role = ret'.arg[4]
                     /\ users'[j].name = ret'.arg[1]
                     /\ users'[j].passwordHash = SHA256(users'[j].salt \o ret'.arg[3])
                /\ Len(activities') = Len(activities) + 1 ]_vars

\* C17 witness: the owner logged in with the right password while the audit
\* write failed: the log is still empty, the session exists
C17_Witness ==
    /\ ret.op = "loginResume"
    /\ ret.fault = "audit"
    /\ ret.result = "true"
    /\ audit = <<>>
    /\ session # None
    /\ screen = "app"

IsJson(d) ==
    CASE d.t = "array" -> \A i \in DOMAIN d.v : d.v[i].t \notin {"nan", "undefined", "date"}
      [] d.t = "object" -> \A i \in DOMAIN d.v : d.v[i][2].t \notin {"nan", "undefined", "date"}
      [] OTHER -> d.t \notin {"nan", "undefined", "date"}

C20_FailsClosed ==
    (ret.op = "decryptBackupData" /\ (ret.arg[2] # ret.arg[3] \/ ret.arg[4] # "none"))
        => (~ret.got.ok /\ ret.got.data = JsUndefined /\ ret.result = "thrown")

\* C20, amended: decryptBackupData throws and returns no data whenever the
\* passphrase differs, the bytes of the ciphertext, salt or iv differ from
\* those of the encryption, or a field is not base64 (a salt re-encoded to the
\* same bytes is the same salt, and decrypts).
C20_FailsClosedOnBytes ==
    (ret.op = "decryptBackupData"
     /\ (ret.arg[2] # ret.arg[3] \/ ret.arg[4] \notin {"none", "saltEncoding"}))
        => (~ret.got.ok /\ ret.got.data = JsUndefined /\ ret.result = "thrown")

\* C20 witness: the right passphrase over a blob whose ciphertext was changed
C20_Witness ==
    /\ ret.op = "decryptBackupData"
    /\ ret.arg[2] = ret.arg[3]
    /\ ret.arg[4] = "ciphertext"
    /\ IsJson(ret.arg[1])
    /\ ret.result = "thrown"
    /\ ret.got.error = "OperationError"

\* a password the strength rules reject, and a username the format rules
\* reject, read off the characters of the string
WeakPassword(password) ==
    LET f == StringFacts(password)
    IN  f.length < 6 \/ f.length > 128 \/ ~f.lower \/ ~f.upper \/ ~f.digit
BadUsername(username) ==
    LET f == StringFacts(username)
    IN  f.length < 2 \/ f.length > 30 \/ ~f.word

\* C21: a saveUser() call with a username that fails the format rules or a
\* password that fails the strength rules, and a changePassword() call with
\* such a password, is rejected before anything is hashed or written: no
\* call is suspended in hashPassword, the credential list and the audit log
\* are as before.
C21_InvalidRejectedBeforeWrite ==
    [][ ( \/ /\ ret'.op = "saveUser"
             /\ BadUsername(ret'.arg[2]) \/ WeakPassword(ret'.arg[3])
          \/ /\ ret'.op = "changePassword"
             /\ WeakPassword(ret'.arg[1]) )
        => /\ ret'.result \in {"invalid", "weak"}
           /\ saving' = saving
           /\ changing' = changing
           /\ users' = users
           /\ audit' = audit ]_vars

\* C21 witness: both functions have rejected an input that passes every test
\* but one (a password without a digit): first changePassword, then saveUser
C21_Witness ==
    /\ ret.op = "saveUser"
    /\ ret.arg[2] = "boss"
    /\ ret.arg[3] = "Newpw@xyz"
    /\ ret.result = "invalid"
    /\ currentUser # None
    /\ \E i \in DOMAIN audit : audit[i].action = "PASSWORD_CHANGED"

\* C29, as claimed: a changePassword() call that completes replaces the
\* passwordHash and salt of exactly one credential, the one with the
\* logged-in user's (username, role); every other credential of the list,
\* one with the same username under the other role included, is as before.
C29_ChangePasswordOnlyOwnCredential ==
    [][ (ret'.op = "changePasswordResume" /\ ret'.result = "true")
        => \E k \in DOMAIN users :
              /\ users[k].username = currentUser.username
              /\ users[k].role = currentUser.role
              /\ DOMAIN users' = DOMAIN users
              /\ users'[k].passwordHash # users[k].passwordHash
              /\ \A j \in DOMAIN users : j # k => users'[j] = users[j] ]_vars

\* C22: a login() call that fails (outside a lockout) has one outcome,
\* whether no credential has the submitted (username, role) or the password
\* is wrong: it returns false, appends one failed attempt and one
\* LOGIN_FAILED audit entry, both under the submitted username, and leaves
\* the session, the logged-in user and the screen as they were.
C22_FailedLoginUniform ==
    [][ (ret'.op \in {"login", "loginResume"} /\ ret'.result # "pending" /\ ~ret'.locked
         /\ ~(ret'.result = "true"))
        => LET username == ret'.arg[1]
               role == ret'.arg[3]
           IN  /\ ret'.result = "false"
               /\ attempts' = recordLoginAttempt(attempts, username, FALSE, now)
               /\ Len(audit') = Len(audit) + 1
               /\ audit'[1].action = "LOGIN_FAILED"
               /\ audit'[1].username = username
               /\ audit'[1].details = "Failed login attempt for role: " \o role
               /\ UNCHANGED <<users, session, currentUser, screen, monitor>> ]_vars

\* C22 witness: a wrong password for an existing credential has just failed,
\* after an unknown username failed; the two left the same kind of attempt
\* and audit entry
C22_Witness ==
    /\ ret.op = "loginResume"
    /\ ret.result = "false"
    /\ ret.arg = <<"owner", "owner123", "owner">>
    /\ Len(attempts) = 2
    /\ attempts[1].username = "ghost" /\ ~attempts[1].success
    /\ attempts[2].username = "owner" /\ ~attempts[2].success
    /\ audit[1].action = "LOGIN_FAILED" /\ audit[2].action = "LOGIN_FAILED"
    /\ audit[1].details = audit[2].details

\* C23: a successful login appends its attempt at the end of the log and
\* neither removes nor alters, among the earlier attempts, the failures that
\* still count toward lockout (those of the last LOCKOUT_DURATION): they are
\* the same entries in the same order, so the count toward the threshold is
\* the same after the success as before it.
C23_SuccessKeepsFailures ==
    [][ (ret'.op = "loginResume" /\ ret'.result = "true")
        => /\ Len(attempts') >= 1
           /\ attempts'[Len(attempts')] =
                [username |-> ret'.arg[1], timestamp |-> now, success |-> TRUE]
           /\ SelectSeq(attempts', LAMBDA a : ~a.success
                                              /\ now - a.timestamp < LOCKOUT_DURATION_MS)
              = SelectSeq(attempts, LAMBDA a : ~a.success
                                               /\ now - a.timestamp < LOCKOUT_DURATION_MS)
           /\ Cardinality(RecentFailures(attempts', now))
              = Cardinality(RecentFailures(attempts, now)) ]_vars

\* C23 witness: four failures, a success, then one more failure, all inside
\* five minutes: locked
C23_Witness ==
    /\ Len(attempts) = 6
    /\ \A i \in 1..4 : ~attempts[i].success
    /\ attempts[5].success
    /\ ~attempts[6].success
    /\ now - attempts[1].timestamp < LOCKOUT_DURATION_MS
    /\ isLoginLocked(attempts, now).locked

\* the attempt log with every username replaced by one name
Anonymous(att) == [i \in DOMAIN att |-> [att[i] EXCEPT !.username = "anyone"]]

\* C24: the lockout does not depend on usernames.  isLoginLocked() gives the
\* same answer on the log with its usernames erased, so failures of different
\* usernames count together; and a login() call that starts while locked is
\* refused whatever username it carries.
C24_LockoutIgnoresUsernames ==
    /\ [](isLoginLocked(attempts, now) = isLoginLocked(Anonymous(attempts), now))
    /\ [][ (ret'.op = "login" /\ isLoginLocked(attempts, now).locked)
           => (ret'.result = "false" /\ ret'.locked /\ inflight' = inflight) ]_vars

\* C24 witness: locked by failures of two usernames, neither of which has
\* five failures of its own, and a login was just refused
C24_Witness ==
    /\ ret.op = "login" /\ ret.locked
    /\ isLoginLocked(attempts, now).locked
    /\ \A name \in {"owner", "ghost"} :
          LET own == {i \in RecentFailures(attempts, now) : attempts[i].username = name}
          IN  own # {} /\ Cardinality(own) < MAX_LOGIN_ATTEMPTS

C26_MigrationIdempotent ==
    /\ [][ ret'.op = "reload" => (users' = users /\ audit' = audit) ]_vars
    /\ [](\A salt \in FreshSalts :
            migratePasswords([users |-> users, audit |-> audit],
                             [i \in DOMAIN users |-> salt], now)
            = [users |-> users, audit |-> audit])

\* C26 witness: the page was loaded again over a store whose custom account
\* had been migrated from plain text, after a login
C26_Witness ==
    /\ ret.op = "reload"
    /\ \E i \in DOMAIN audit : audit[i].action = "PASSWORD_MIGRATION"
    /\ audit[1].action = "LOGIN_SUCCESS"
    /\ \E i \in DOMAIN users : users[i].username = "asha" /\ users[i].passwordHash # <<>>

\* C27, as claimed: on a fresh installation a login() as owner / owner123
\* (role owner) or as staff / staff123 (role staff), the credentials the
\* README gives, succeeds.
C27_ReadmeCredentialsLogIn ==
    [][ (/\ ret'.op = "loginResume"
         /\ ret'.arg \in {<<"owner", "owner123", "owner">>, <<"staff", "staff123", "staff">>}
         /\ \E salts \in InstallSalts : users = DefaultUsers(salts[1], salts[2]))
        => ret'.result = "true" ]_vars

\* the records of a list dated d
Dated(list, d) == SelectSeq(list, LAMBDA x : x.date = d)

\* C28, as claimed: a closing record is written only while the logged-in
\* user has role owner; and from the step after which a closing record exists
\* for a date, the sales and the stock entries dated that day stay as they
\* are, whatever operations and pending confirm dialogs follow.
C28_OwnerClosesAndDayStaysLocked ==
    [][ /\ Len(closings') > Len(closings)
           => (currentUser # None /\ currentUser.role = "owner")
        /\ \A d \in DayDates :
              (isDayLocked(closings, d) /\ isDayLocked(closings', d))
              => /\ Dated(sales', d) = Dated(sales, d)
                 /\ Dated(stockEntries', d) = Dated(stockEntries, d) ]_vars

\* C30, as claimed: whenever the app holds a logged-in user while the
\* persisted session is absent or expired, the user is eventually logged out
\* (the expiry handler runs logout(), which clears currentUser), whichever of
\* the poll, a refresh or a page load observes the expiry first.
C30_ExpiredUserEventuallyLoggedOut ==
    (currentUser # None /\ ~SessionActive) ~> (currentUser = None)

\* ------------------------------------------------------------------------
\* C31: after any sequence of add, update and delete user operations
\* starting from the default users, the stored list holds at least one
\* credential with role owner.
\* ------------------------------------------------------------------------
C31_AlwaysAnOwner ==
    \E i \in DOMAIN users : users[i].role = "owner"

\* ------------------------------------------------------------------------
\* C32: a refresh (from an activity signal or from Extend Session) that finds
\* no session, or a session past its expiresAt, stores and returns nothing:
\* getSession returns none afterwards.  A stored session that has expired is
\* never made valid again: it stays as it is until it is read, and is then
\* removed, or it is replaced by the session of a new login.
\* ------------------------------------------------------------------------
C32_RefreshRevivesNothing ==
    [][ /\ (/\ ret'.op \in {"activity", "extend"}
            /\ ret'.result # "dropped"
            /\ getSession(Sec, now).value = None)
           => /\ session' = None
              /\ ret'.got = None
              /\ getSession(Sec', now').value = None
        /\ (session # None /\ now > session.expiresAt)
           => \/ session' = None
              \/ session' = session
              \/ ret'.created ]_vars

\* C32 witness: the user, still shown as logged in, asked for a refresh after
\* the session had expired; nothing is stored
C32_Witness ==
    /\ ret.op \in {"activity", "extend"}
    /\ ret.result # "dropped"
    /\ ret.got = None
    /\ session = None
    /\ currentUser # None
    /\ now > SESSION_TIMEOUT_MS

\* ------------------------------------------------------------------------
\* C33: while the session is Active and the app shows the user as logged in,
\* an activity signal leaves the session valid for at least 30 minutes less
\* 5 seconds from that signal (it is refreshed, or was refreshed within the
\* throttle's 5 seconds).  Signals that fall behind a throttle timeout that is
\* overdue are left out.
\* ------------------------------------------------------------------------
C33_ActivityKeepsSessionFresh ==
    [][ (/\ ret'.op \in {"activity", "signal"}
         /\ SessionActive
         /\ currentUser # None
         /\ screen = "app"
         /\ ~(monitor.inThrottle /\ now >= monitor.throttleAt + THROTTLE_LIMIT_MS))
        => /\ session' # None
           /\ session'.expiresAt >= now + SESSION_TIMEOUT_MS - THROTTLE_LIMIT_MS ]_vars

\* ------------------------------------------------------------------------
\* C34: whatever the interleaving of login calls, the attempt log never holds
\* more than MAX_LOGIN_ATTEMPTS failed attempts inside one window of
\* LOCKOUT_DURATION (a window starts at a failure and ends LOCKOUT_DURATION
\* later, exclusive).
\* ------------------------------------------------------------------------
C34_AtMostFiveFailuresPerWindow ==
    \A i \in DOMAIN attempts :
        Cardinality({j \in DOMAIN attempts :
                        /\ ~attempts[j].success
                        /\ attempts[j].timestamp >= attempts[i].timestamp
                        /\ attempts[j].timestamp < attempts[i].timestamp + LOCKOUT_DURATION_MS})
            <= MAX_LOGIN_ATTEMPTS

\* ------------------------------------------------------------------------
\* Lockout and its end
\* ------------------------------------------------------------------------
\* the last entry of the log is the failure that triggered the lockout: the
\* log is locked at its timestamp and was not before it was recorded
Triggered ==
    /\ attempts # <<>>
    /\ LET last == attempts[Len(attempts)]
       IN  /\ ~last.success
           /\ isLoginLocked(attempts, last.timestamp).locked
           /\ ~isLoginLocked(SubSeq(attempts, 1, Len(attempts) - 1), last.timestamp).locked

\* the earliest qualifying failure's timestamp + LOCKOUT_DURATION, for the
\* failures that qualified when the lockout was triggered
UnlockTime ==
    LET at == attempts[Len(attempts)].timestamp
    IN  Min({attempts[i].timestamp : i \in RecentFailures(attempts, at)}) + LOCKOUT_DURATION_MS

\* C35: once a recorded failure has triggered the lockout and nothing has
\* been recorded since, isLoginLocked reports not locked at every instant
\* from the earliest qualifying failure's timestamp + 5 minutes on.
C35_LockoutEndsAtUnlockTime ==
    Triggered =>
        \A t \in {now, UnlockTime, UnlockTime + 1, UnlockTime + MS_PER_MINUTE,
                  UnlockTime + LOCKOUT_DURATION_MS} :
            t >= UnlockTime => ~isLoginLocked(attempts, t).locked

\* C35 witness: failures recorded at different instants triggered the
\* lockout, the clock has just reached the unlock time and the log reads as
\* not locked
C35_Witness ==
    /\ Triggered
    /\ attempts[1].timestamp # attempts[Len(attempts)].timestamp
    /\ now = UnlockTime
    /\ ~isLoginLocked(attempts, now).locked
    /\ isLoginLocked(attempts, now - 1).locked

\* ------------------------------------------------------------------------
\* C36: when a suspended saveUser resumes, the list it writes is the list
\* stored at that moment with saveUser's own change (one credential replaced,
\* or one appended): what other operations wrote during the await is kept.
\* ------------------------------------------------------------------------
C36_SaveUserKeepsConcurrentChanges ==
    [][ ret'.op = "saveUserResume"
        => LET editIndex == ret'.arg[5]
               saved(u) == u.username = ret'.arg[2] /\ u.role = ret'.arg[4]
           IN  /\ \A i \in DOMAIN users :
                     \/ i = editIndex
                     \/ saved(users[i])
                     \/ \E j \in DOMAIN users' : users'[j] = users[i]
               /\ \A j \in DOMAIN users' :
                     \/ saved(users'[j])
                     \/ \E i \in DOMAIN users : users[i] = users'[j] ]_vars

\* ------------------------------------------------------------------------
\* C37: a legacy record whose plain-text password is not one of the known
\* weak placeholders keeps it through the upgrade: the original password
\* verifies against the hash and salt init() stored for the record.
\* ------------------------------------------------------------------------
C37_StrongLegacyPasswordKept ==
    (ret.op = "migrate" /\ ret.arg[2] \notin defaultWeakPasswords) => ret.result = "true"

\* ------------------------------------------------------------------------
\* C38: within one monitor instance (one session: the refreshes of this
\* scenario all come from activity signals) a signal refreshes only if no
\* earlier signal refreshed less than 5 seconds before; the first signal of
\* the instance, and any signal after the throttle has been released,
\* refreshes at once; a dropped signal changes nothing, then or when the
\* throttle's timeout fires.
\* ------------------------------------------------------------------------
C38_OneRefreshPerWindow ==
    [][ /\ (ret'.op = "activity" /\ ret'.result = "refresh" /\ SessionActive
            /\ session.lastActivity > session.createdAt)
           => now - session.lastActivity >= THROTTLE_LIMIT_MS
        /\ (ret'.op = "activity" /\ SessionActive /\ ~monitor.inThrottle)
           => ret'.result = "refresh" /\ session'.lastActivity = now
        /\ (ret'.op = "activity" /\ ret'.result = "dropped") => session' = session
        /\ ret'.op = "throttleReset" => session' = session ]_vars

\* C38 witness: a signal was dropped less than 5 seconds after the signal
\* that refreshed the session
C38_Witness ==
    /\ ret.op = "activity"
    /\ ret.result = "dropped"
    /\ session # None
    /\ session.lastActivity > session.createdAt
    /\ now > session.lastActivity
    /\ now < session.lastActivity + THROTTLE_LIMIT_MS

\* ------------------------------------------------------------------------
\* C39: a step that records a login attempt leaves the log holding the new
\* entry after exactly those earlier entries that are younger than
\* ATTEMPT_WINDOW (15 minutes), in their order; no other step, the lock
\* check of a rejected login included, changes the log.
\* ------------------------------------------------------------------------
C39_LogPrunedOnWriteOnly ==
    [][ LET recorded == \/ ret'.op = "loginResume"
                        \/ ret'.op = "login" /\ ret'.result = "false" /\ ~ret'.locked
        IN  IF recorded
            THEN /\ attempts' # <<>>
                 /\ attempts'[Len(attempts')] = [username |-> ret'.arg[1], timestamp |-> now,
                                                 success |-> ret'.result = "true"]
                 /\ SubSeq(attempts', 1, Len(attempts') - 1)
                      = SelectSeq(attempts, LAMBDA a : now - a.timestamp < ATTEMPT_WINDOW_MS)
            ELSE attempts' = attempts ]_vars

\* C39 witness: an attempt was recorded when one earlier entry was 15 minutes
\* old and another a millisecond younger: the first is gone, the second kept
C39_Witness ==
    /\ ret.op \in {"login", "loginResume"}
    /\ Len(attempts) >= 2
    /\ attempts[Len(attempts)].timestamp = now
    /\ now - attempts[1].timestamp = ATTEMPT_WINDOW_MS - 1
    /\ Len(audit) > Len(attempts)

\* ------------------------------------------------------------------------
\* C40: a refresh (from an activity signal or from Extend Session) that
\* leaves a session stored leaves its token, username, role, name and
\* createdAt as they were; and every stored session has createdAt <=
\* lastActivity and expiresAt = lastActivity + 30 minutes.
\* ------------------------------------------------------------------------
C40_RefreshFrame ==
    /\ [](session # None
            => /\ session.createdAt <= session.lastActivity
               /\ session.expiresAt = session.lastActivity + SESSION_TIMEOUT_MS)
    /\ [][ (/\ ret'.op \in {"activity", "extend", "refresh"}
            /\ ret'.result # "dropped"
            /\ session' # None)
           => /\ session # None
              /\ session'.token = session.token
              /\ session'.username = session.username
              /\ session'.role = session.role
              /\ session'.name = session.name
              /\ session'.createdAt = session.createdAt
              /\ DOMAIN session' = DOMAIN session ]_vars
====
